---- MODULE Spec2Model ----
(***************************************************************************)
(* A model of the Simple-Vector library (sl::vec): the fixed-dimension     *)
(* Vector<T, N> value type, its constructors and arithmetic operators,     *)
(* the transform engine (transform_unseq / transform_reduce_unseq) and     *)
(* the free functions built on it.                                         *)
(*                                                                         *)
(* Element types are the three arithmetic types the test-suite uses:       *)
(* "int" (signed, two's complement), "uint" (unsigned int) and "float"     *)
(* (binary floating point, round-to-nearest-even).  Their widths are       *)
(* scaled down (IntBits, MantBits, ...) so that overflow, wrap-around and  *)
(* rounding happen on small numbers.                                       *)
(***************************************************************************)
EXTENDS Integers, Sequences, FiniteSets, TLC

(***************************************************************************)
(* Bounds of the model.                                                    *)
(***************************************************************************)
\* width of int / unsigned int in bits
IntBits == 6
\* precision (significand bits) of float; smaller than IntBits - 1, as 24 < 31
MantBits == 4
\* the smallest positive float is 2^-FracBits
FracBits == 2
\* the largest float is (2^MantBits - 1) * 2^(MaxExp - FracBits)
MaxExp == 6
\* the largest dimension N of a Vector<T, N>
MaxDim == 3
\* the largest number of invocations made of one generator object
MaxCalls == 4

RECURSIVE Pow2(_)
Pow2(n) == IF n <= 0 THEN 1 ELSE 2 * Pow2(n - 1)

\* 2^IntBits, the modulus of unsigned arithmetic
IntMod == Pow2(IntBits)
\* 2^MantBits, the bound of the significand
MantMod == Pow2(MantBits)
IntMin == -Pow2(IntBits - 1)
IntMax == Pow2(IntBits - 1) - 1
UIntMax == Pow2(IntBits) - 1
\* one float "unit" is 2^-FracBits; One is the float 1.0 in units
One == Pow2(FracBits)
FloatMaxU == (Pow2(MantBits) - 1) * Pow2(MaxExp)

Types == {"int", "uint", "float"}
IntegralTypes == {"int", "uint"}

(***************************************************************************)
(* Scalar values.  A value is a record [k, sg, u]:                         *)
(*   k = "fin"   a finite number: sg * u for the integer types, and        *)
(*               sg * u * 2^-FracBits for float (so float keeps -0)        *)
(*   k = "inf"   float infinity of sign sg                                 *)
(*   k = "nan"   float NaN                                                 *)
(*   k = "undef" the result of an operation with undefined behaviour       *)
(*               (signed overflow, integer division by zero, a float to    *)
(*               integer conversion out of range); it poisons whatever is  *)
(*               computed from it, and the operation that meets it yields  *)
(*               an arbitrary outcome (see Outcomes)                       *)
(***************************************************************************)
Fin(sg, u) == [k |-> "fin", sg |-> sg, u |-> u]
Inf(sg) == [k |-> "inf", sg |-> sg, u |-> 0]
NaN == [k |-> "nan", sg |-> 1, u |-> 0]
Undef == [k |-> "undef", sg |-> 1, u |-> 0]
MkInt(n) == IF n < 0 THEN Fin(-1, -n) ELSE Fin(1, n)
Num(x) == x.sg * x.u
\* the float with the integral value n (n small enough to be exact)
MkFloat(n) == IF n < 0 THEN Fin(-1, (-n) * One) ELSE Fin(1, n * One)
\* T{} : value-initialisation of an arithmetic type
Zero == Fin(1, 0)

InRange(ty, n) ==
    IF ty = "int" THEN IntMin <= n /\ n <= IntMax ELSE 0 <= n /\ n <= UIntMax

\* modular reduction into the range of an integer type
Wrap(ty, n) ==
    IF ty = "uint" THEN n % IntMod
    ELSE ((n - IntMin) % IntMod) + IntMin

(***************************************************************************)
(* Floating point rounding: the float nearest to sg * N / D units          *)
(* (N >= 0, D > 0), ties to the even significand, overflow to infinity.    *)
(***************************************************************************)
RECURSIVE RoundExp(_, _, _)
\* the smallest exponent e with N / (D * 2^e) < 2^MantBits
RoundExp(N, D, e) ==
    IF N < MantMod * D * Pow2(e) THEN e ELSE RoundExp(N, D, e + 1)

\* the float of u units, or infinity when u is beyond the largest float
Overflow(sg, u) == IF u > FloatMaxU THEN Inf(sg) ELSE Fin(sg, u)
\* the quotient q with remainder r of a division by step, rounded to nearest,
\* ties to even
RoundQuotient(q, r, step) ==
    IF 2 * r > step \/ (2 * r = step /\ q % 2 = 1) THEN q + 1 ELSE q
\* N / D rounded to a multiple of unit
RoundTo(sg, N, D, unit) ==
    Overflow(sg, RoundQuotient(N \div (D * unit), N % (D * unit), D * unit) * unit)

RoundFloat(sg, N, D) == RoundTo(sg, N, D, Pow2(RoundExp(N, D, 0)))

\* is the value a float of this format (checked of the inputs)
IsFloat(x) ==
    \/ x.k \in {"inf", "nan"}
    \/ x.k = "fin" /\ x.u >= 0 /\ RoundFloat(x.sg, x.u, 1) = x

(***************************************************************************)
(* static_cast<to>(x) for x of type from.                                  *)
(***************************************************************************)
Convert(from, to, x) ==
    IF x.k = "undef" THEN Undef
    ELSE IF from = to THEN x
    ELSE IF to = "float" THEN RoundFloat(x.sg, x.u * One, 1)
    ELSE IF from = "float" THEN
        \* truncation toward zero; undefined when the truncated value
        \* is not representable in the destination type
        IF x.k # "fin" THEN Undef
        ELSE IF InRange(to, x.sg * (x.u \div One)) THEN MkInt(x.sg * (x.u \div One))
        ELSE Undef
    ELSE MkInt(Wrap(to, Num(x)))

\* the usual arithmetic conversions: the common type of two operands
Common(t1, t2) ==
    IF t1 = "float" \/ t2 = "float" THEN "float"
    ELSE IF t1 = "uint" \/ t2 = "uint" THEN "uint"
    ELSE "int"

(***************************************************************************)
(* Built-in arithmetic on two operands of the same type ty.                *)
(***************************************************************************)
\* quotient truncated toward zero
Abs(a) == IF a < 0 THEN -a ELSE a
TruncDiv(a, b) ==
    IF (a < 0) = (b < 0) THEN Abs(a) \div Abs(b) ELSE -(Abs(a) \div Abs(b))

\* the mathematical result of x op y (0 for a division by zero)
IntResult(op, x, y) ==
    CASE op = "+" -> x + y
      [] op = "-" -> x - y
      [] op = "*" -> x * y
      [] op = "/" -> IF y = 0 THEN 0 ELSE TruncDiv(x, y)
      [] op = "%" -> IF y = 0 THEN 0 ELSE x - y * TruncDiv(x, y)

\* the result r of x op y in the type ty: unsigned arithmetic is modular,
\* signed overflow and division by zero are undefined
IntTyped(op, ty, x, y, r) ==
    IF op \in {"/", "%"} /\ y = 0 THEN Undef
    ELSE IF ty = "uint" THEN MkInt(Wrap("uint", r))
    ELSE IF InRange("int", r) /\ ~(op = "%" /\ x = IntMin /\ y = -1)
         THEN MkInt(r) ELSE Undef

IntArith(op, ty, a, b) == IntTyped(op, ty, Num(a), Num(b), IntResult(op, Num(a), Num(b)))

FloatNeg(a) == IF a.k = "nan" THEN a ELSE [a EXCEPT !.sg = -a.sg]

FloatAdd(a, b) ==
    IF a.k = "nan" \/ b.k = "nan" THEN NaN
    ELSE IF a.k = "inf" /\ b.k = "inf" THEN (IF a.sg = b.sg THEN a ELSE NaN)
    ELSE IF a.k = "inf" THEN a
    ELSE IF b.k = "inf" THEN b
    ELSE IF Num(a) + Num(b) = 0
         THEN (IF a.sg = -1 /\ b.sg = -1 THEN Fin(-1, 0) ELSE Fin(1, 0))
    ELSE RoundFloat(IF Num(a) + Num(b) < 0 THEN -1 ELSE 1, Abs(Num(a) + Num(b)), 1)

FloatMul(a, b) ==
    IF a.k = "nan" \/ b.k = "nan" THEN NaN
    ELSE IF (a.k = "inf" /\ b.k = "fin" /\ b.u = 0)
            \/ (b.k = "inf" /\ a.k = "fin" /\ a.u = 0) THEN NaN
    ELSE IF a.k = "inf" \/ b.k = "inf" THEN Inf(a.sg * b.sg)
    ELSE RoundFloat(a.sg * b.sg, a.u * b.u, One)

FloatDiv(a, b) ==
    IF a.k = "nan" \/ b.k = "nan" THEN NaN
    ELSE IF a.k = "inf" THEN (IF b.k = "inf" THEN NaN ELSE Inf(a.sg * b.sg))
    ELSE IF b.k = "inf" THEN Fin(a.sg * b.sg, 0)
    ELSE IF b.u = 0 THEN (IF a.u = 0 THEN NaN ELSE Inf(a.sg * b.sg))
    ELSE RoundFloat(a.sg * b.sg, a.u * One, b.u)

Arith(op, ty, a, b) ==
    IF a.k = "undef" \/ b.k = "undef" THEN Undef
    ELSE IF ty = "float" THEN
        CASE op \in {"+", "-"} -> FloatAdd(a, IF op = "-" THEN FloatNeg(b) ELSE b)
          [] op = "*" -> FloatMul(a, b)
          [] op = "/" -> FloatDiv(a, b)
    ELSE IntArith(op, ty, a, b)

\* a typed scalar
Scalar(ty, val) == [ty |-> ty, val |-> val]

\* the built-in expression  a op b  on operands of any two types: both are
\* converted to their common type, which is also the type of the result
BinOpIn(ct, op, a, b) ==
    Scalar(ct, Arith(op, ct, Convert(a.ty, ct, a.val), Convert(b.ty, ct, b.val)))
BinOp(op, a, b) == BinOpIn(Common(a.ty, b.ty), op, a, b)

\* the built-in  a == b  on two values of the same type
ValEq(a, b) ==
    /\ a.k # "nan" /\ b.k # "nan"
    /\ \/ a.k = "fin" /\ b.k = "fin" /\ Num(a) = Num(b)
       \/ a.k = "inf" /\ b.k = "inf" /\ a.sg = b.sg

(***************************************************************************)
(* <cmath> on floats.                                                      *)
(***************************************************************************)
\* the built-in  a < b  on two floats
FloatOrder(x) == IF x.k = "inf" THEN x.sg * (FloatMaxU + 1) ELSE Num(x)
FloatLess(a, b) ==
    a.k \in {"fin", "inf"} /\ b.k \in {"fin", "inf"} /\ FloatOrder(a) < FloatOrder(b)
\* a <= 0 && b >= 0
Straddles(a, b) ==
    /\ ~FloatLess(Zero, a) /\ a.k # "nan"
    /\ ~FloatLess(b, Zero) /\ b.k # "nan"

RECURSIVE ISqrt(_, _)
\* the largest r' >= r with r' * r' <= n
ISqrt(n, r) == IF (r + 1) * (r + 1) > n THEN r ELSE ISqrt(n, r + 1)

\* the float nearest to the square root of u units: the root of 4 * u * One
\* is twice the root in units; when it is not exact, the point between it
\* and the next stands for the irrational root, which no float and no
\* midpoint of two floats equals
SqrtRounded(u, r) ==
    IF r * r = 4 * u * One THEN RoundFloat(1, r, 2) ELSE RoundFloat(1, 2 * r + 1, 4)

\* std::sqrt(a), correctly rounded
FloatSqrt(a) ==
    IF a.k \in {"nan", "undef"} THEN a
    ELSE IF a.u = 0 THEN a
    ELSE IF a.sg = -1 THEN NaN
    ELSE IF a.k = "inf" THEN a
    ELSE SqrtRounded(a.u, ISqrt(4 * a.u * One, 0))

\* the end of std::lerp: x, kept from passing b (monotonic near t = 1)
LerpBounded(a, b, t, x) ==
    IF FloatLess(Fin(1, One), t) = FloatLess(a, b)
    THEN (IF FloatLess(b, x) THEN x ELSE b)
    ELSE (IF FloatLess(x, b) THEN x ELSE b)

\* std::lerp(a, b, t) on three floats:
\*   t * b + (1 - t) * a  when a and b are of opposite sign or zero,
\*   b when t == 1, and otherwise a + t * (b - a), bounded by b
std_lerp(a, b, t) ==
    IF a.k = "undef" \/ b.k = "undef" \/ t.k = "undef" THEN Undef
    ELSE IF Straddles(a, b) \/ Straddles(b, a)
         THEN FloatAdd(FloatMul(t, b), FloatMul(FloatAdd(Fin(1, One), FloatNeg(t)), a))
    ELSE IF ValEq(t, Fin(1, One)) THEN b
    ELSE LerpBounded(a, b, t, FloatAdd(a, FloatMul(t, FloatAdd(b, FloatNeg(a)))))

(***************************************************************************)
(* Objects.  A Vector<T, N> is [ty |-> T, m_Values |-> <<N values>>].      *)
(* The memory a call works on holds the object under construction or       *)
(* modification ("this"), the other vector operand ("other") and the       *)
(* scalar argument ("arg"); a reference names one of these places.         *)
(***************************************************************************)
Vec(ty, vals) == [ty |-> ty, m_Values |-> vals]
Dim(x) == Len(x.m_Values)
\* storage_type m_Values{} : N value-initialised elements
ZeroValues(n) == [i \in 1..n |-> Zero]
NoVec == Vec("int", <<>>)
NoScalar == Scalar("int", Zero)

Mem(this, other, arg) == [this |-> this, other |-> other, arg |-> arg]
ArgRef == [obj |-> "arg", idx |-> 0]
ElemRef(obj, i) == [obj |-> obj, idx |-> i]
\* reading through a reference
Deref(mem, ref) ==
    IF ref.obj = "arg" THEN mem.arg
    ELSE Scalar(mem[ref.obj].ty, mem[ref.obj].m_Values[ref.idx])
\* *out = r : assignment to element i of "this" converts to its value_type
Store(mem, i, r) ==
    [mem EXCEPT !.this.m_Values[i] = Convert(r.ty, mem.this.ty, r.val)]

HasUndef(vals) == \E i \in 1..Len(vals) : vals[i].k = "undef"

(***************************************************************************)
(* Function objects, as data.                                              *)
(*   [kind |-> "identity"]                      std::identity              *)
(*   [kind |-> "plus" | "minus" | "multiplies"] std::plus{} ...            *)
(*   [kind |-> "lambda_ref", op, value]   [&value](lhs){ lhs op value }    *)
(*   [kind |-> "lambda_val", op, value]   [value](lhs){ lhs op value }     *)
(*   [kind |-> "invoke_counter"]   ++*m_Counter; return the first argument *)
(*                                 (the counter is the object arg)         *)
(*   [kind |-> "lerp", value]      [t](a, b){ std::lerp(a, b, t) }         *)
(*   [kind |-> "inverse"]          [](value){ 1. / value }                 *)
(* and fn::cast_invoke_result<T>(func) wrapping any of them.               *)
(***************************************************************************)
Func(kind) == [kind |-> kind, op |-> "", ref |-> ArgRef, value |-> NoScalar]
LambdaRef(op, ref) == [kind |-> "lambda_ref", op |-> op, ref |-> ref, value |-> NoScalar]
LambdaVal(op, value) == [kind |-> "lambda_val", op |-> op, ref |-> ArgRef, value |-> value]

\* the operator a function object applies
FuncOp(func) ==
    CASE func.kind = "plus" -> "+"
      [] func.kind = "minus" -> "-"
      [] func.kind = "multiplies" -> "*"
      [] OTHER -> func.op
\* its right operand: the second argument, or what the lambda captured
FuncRhs(func, mem, args) ==
    CASE func.kind = "lambda_ref" -> Deref(mem, func.ref)
      [] func.kind = "lambda_val" -> func.value
      [] OTHER -> args[2]

\* std::lerp(a, b, t) with arguments of any arithmetic types: the overload
\* for the floating-point type they promote to
LerpPromoted(a, b, t) ==
    Scalar("float", std_lerp(Convert(a.ty, "float", a.val),
                             Convert(b.ty, "float", b.val),
                             Convert(t.ty, "float", t.val)))

InvokeFunc(func, mem, args) ==
    IF func.kind \in {"identity", "invoke_counter"} THEN args[1]
    ELSE IF func.kind = "lerp" THEN LerpPromoted(args[1], args[2], func.value)
    ELSE IF func.kind = "inverse" THEN BinOp("/", Scalar("float", Fin(1, One)), args[1])
    ELSE BinOp(FuncOp(func), args[1], FuncRhs(func, mem, args))

\* detail::cast_invoke_result_fn<TTargetType, TFunc>::operator()
\* (target "auto": the type of the result is kept, there is no cast)
StaticCast(target, r) ==
    IF target = "auto" THEN r ELSE Scalar(target, Convert(r.ty, target, r.val))
cast_invoke_result_fn(target, func, mem, args) ==
    StaticCast(target, InvokeFunc(func, mem, args))

\* fn::cast_invoke_result<TTargetType>(func)
cast_invoke_result(target, func) == [cast |-> TRUE, target |-> target, func |-> func]
\* a function object passed as it is
NoCast(func) == [cast |-> FALSE, target |-> "auto", func |-> func]

\* std::invoke of either
Invoke(fn, mem, args) == cast_invoke_result_fn(fn.target, fn.func, mem, args)

\* the memory after one invocation: an invoke_counter has incremented its
\* counter, the other function objects have no effect
Invoked(fn, mem) ==
    IF fn.func.kind = "invoke_counter"
    THEN [mem EXCEPT !.arg = Scalar("int", Arith("+", "int", mem.arg.val, MkInt(1)))]
    ELSE mem

(***************************************************************************)
(* The transform engine.  In a constant-evaluated call the elements are    *)
(* visited in ascending order (std::ranges::transform); otherwise the      *)
(* std::execution::unseq overload visits them in an unspecified order,     *)
(* given here as a sequence of the indices.                                *)
(***************************************************************************)
Ascending(n) == [i \in 1..n |-> i]
\* the orders the unsequenced overloads are run with: every rotation of the
\* ascending order (each index is visited first once) and the descending order
Orders(n) ==
    IF n = 0 THEN {<<>>}
    ELSE {[i \in 1..n |-> ((i - 1 + k) % n) + 1] : k \in 0..(n - 1)}
         \cup {[i \in 1..n |-> n + 1 - i]}

\* (a loop that does not advance its input iterator)
TransformStep_ReadsFirst(mem, src, unaryOp, i) ==
    Store(Invoked(unaryOp, mem), i,
          Invoke(unaryOp, mem, <<Deref(mem, ElemRef(src, 1))>>))

\* element i of the range src is read, unaryOp applied, and the result
\* written to result + i
TransformStep(mem, src, unaryOp, i) ==
    Store(Invoked(unaryOp, mem), i,
          Invoke(unaryOp, mem, <<Deref(mem, ElemRef(src, i))>>))

RECURSIVE TransformLoop(_, _, _, _)
\* one step for each index, in the order given
TransformLoop(mem, src, unaryOp, order) ==
    IF order = <<>> THEN mem
    ELSE TransformLoop(TransformStep(mem, src, unaryOp, Head(order)),
                       src, unaryOp, Tail(order))

\* transform_unseq(range, result, unaryOp): range is the first n elements
\* of the object src, result is begin(this->m_Values)
transform_unseq(mem, src, n, unaryOp, ce, order) ==
    TransformLoop(mem, src, unaryOp, IF ce THEN Ascending(n) ELSE order)

\* the orders a call can visit n elements in
CallOrders(ce, n) == IF ce THEN {Ascending(n)} ELSE Orders(n)

\* element i of both ranges is read, binaryOp applied, and the result
\* written to result + i
TransformStep2(mem, src1, src2, binaryOp, i) ==
    Store(Invoked(binaryOp, mem), i,
          Invoke(binaryOp, mem, <<Deref(mem, ElemRef(src1, i)),
                                  Deref(mem, ElemRef(src2, i))>>))

RECURSIVE TransformLoop2(_, _, _, _, _)
TransformLoop2(mem, src1, src2, binaryOp, order) ==
    IF order = <<>> THEN mem
    ELSE TransformLoop2(TransformStep2(mem, src1, src2, binaryOp, Head(order)),
                        src1, src2, binaryOp, Tail(order))

\* transform_unseq(range1, range2, result, binaryOp): the ranges are the
\* first n elements of the objects src1 and src2, result is
\* begin(this->m_Values)
transform_unseq_binary(mem, src1, src2, n, binaryOp, ce, order) ==
    TransformLoop2(mem, src1, src2, binaryOp, IF ce THEN Ascending(n) ELSE order)

\* init = binaryOp1(a, b): the result, converted to the type T of init
ReduceOp(binaryOp1, mem, T, a, b) == StaticCast(T, Invoke(binaryOp1, mem, <<a, b>>))

\* the state of a reduction: the memory and the value accumulated
FoldState(mem, acc) == [mem |-> mem, acc |-> acc]

\* one application of binaryOp1: to acc and b, or (flip) to b and acc
FoldStep(binaryOp1, st, b, flip) ==
    FoldState(Invoked(binaryOp1, st.mem),
              ReduceOp(binaryOp1, st.mem, st.acc.ty,
                       IF flip THEN b ELSE st.acc,
                       IF flip THEN st.acc ELSE b))

RECURSIVE Fold(_, _, _, _)
\* acc combined with the operands one after the other, acc on the left
\* (flip: on the right)
Fold(binaryOp1, st, operands, flip) ==
    IF operands = <<>> THEN st
    ELSE Fold(binaryOp1, FoldStep(binaryOp1, st, Head(operands), flip),
              Tail(operands), flip)

Reverse(seq) == [k \in 1..Len(seq) |-> seq[Len(seq) + 1 - k]]
Permute(seq, order) == [k \in 1..Len(seq) |-> seq[order[k]]]

\* the two halves combined
JoinHalves(binaryOp1, first, second) ==
    FoldStep(binaryOp1, FoldState(second.mem, first.acc), second.acc, FALSE)

\* (a reduction that seeds each half with init)
SecondHalf_SeedsInit(binaryOp1, first, operands) ==
    JoinHalves(binaryOp1, first,
               Fold(binaryOp1,
                    FoldState(first.mem, operands[1]),
                    SubSeq(operands, Len(operands) \div 2 + 1, Len(operands)),
                    FALSE))

\* the second half of the operands folded after the first, and the two
\* combined
SecondHalf(binaryOp1, first, operands) ==
    JoinHalves(binaryOp1, first,
               Fold(binaryOp1,
                    FoldState(first.mem, operands[Len(operands) \div 2 + 1]),
                    SubSeq(operands, Len(operands) \div 2 + 2, Len(operands)),
                    FALSE))

\* the operands (two at least for "halves") combined in the grouping given:
\*   "left"    ((a1 + a2) + a3) + a4
\*   "right"   a1 + (a2 + (a3 + a4))
\*   "halves"  (a1 + a2) + (a3 + a4)
Reduce(binaryOp1, mem, operands, shape) ==
    IF shape = "halves"
    THEN SecondHalf(binaryOp1,
                    Fold(binaryOp1, FoldState(mem, operands[1]),
                         SubSeq(operands, 2, Len(operands) \div 2), FALSE),
                    operands)
    ELSE Fold(binaryOp1,
              FoldState(mem, IF shape = "left" THEN operands[1]
                             ELSE operands[Len(operands)]),
              IF shape = "left" THEN Tail(operands) ELSE Tail(Reverse(operands)),
              shape = "right")

\* the groupings the unsequenced reduction is run with
Shapes == {"left", "right", "halves"}
CallShapes(ce) == IF ce THEN {"left"} ELSE Shapes

\* the arguments of the operation applied to the elements: range[i] (the
\* unary form, src2 = "none"), or range1[i] and range2[i]
Arguments(mem, src1, src2, i) ==
    IF src2 = "none" THEN <<Deref(mem, ElemRef(src1, i))>>
    ELSE <<Deref(mem, ElemRef(src1, i)), Deref(mem, ElemRef(src2, i))>>

\* binaryOp2(range1[i], range2[i]), or unaryOp(range[i]), appended to the
\* operands
MapStep(binaryOp2, st, src1, src2, i) ==
    [mem |-> Invoked(binaryOp2, st.mem),
     operands |-> Append(st.operands,
                         Invoke(binaryOp2, st.mem, Arguments(st.mem, src1, src2, i)))]

RECURSIVE MapLoop(_, _, _, _, _, _)
MapLoop(binaryOp2, st, src1, src2, i, n) ==
    IF i > n THEN st
    ELSE MapLoop(binaryOp2, MapStep(binaryOp2, st, src1, src2, i), src1, src2, i + 1, n)

\* init followed by binaryOp2(range1[i], range2[i]) for each i, and the
\* memory after these invocations
ReduceOperands(mem, src1, src2, n, init, binaryOp2) ==
    MapLoop(binaryOp2, [mem |-> mem, operands |-> <<init>>], src1, src2, 1, n)

\* the operands, permuted, combined
ReduceMapped(binaryOp1, mapped, order, shape) ==
    Reduce(binaryOp1, mapped.mem, Permute(mapped.operands, order), shape)

\* transform_reduce_unseq(range1, range2, init, binaryOp1, binaryOp2): the
\* value returned (acc) and the memory left behind (mem).
\* Constant-evaluated: std::transform_reduce, the left fold from init in
\* ascending order.  Otherwise the unsequenced overload: the generalized sum
\* of init and the n transformed values, here the operands permuted by order
\* (a permutation of 1..n+1) and grouped by shape.
TransformReduce(mem, src1, src2, n, init, binaryOp1, binaryOp2, ce, order, shape) ==
    ReduceMapped(binaryOp1,
                 ReduceOperands(mem, src1, src2, n, init, binaryOp2),
                 IF ce THEN Ascending(n + 1) ELSE order,
                 IF ce \/ n = 0 THEN "left" ELSE shape)

\* transform_reduce_unseq(range, init, binaryOp, unaryOp)
TransformReduceUnary(mem, src, n, init, binaryOp, unaryOp, ce, order, shape) ==
    TransformReduce(mem, src, "none", n, init, binaryOp, unaryOp, ce, order, shape)

\* the value transform_reduce_unseq returns
transform_reduce_unseq(mem, src1, src2, n, init, binaryOp1, binaryOp2, ce, order, shape) ==
    TransformReduce(mem, src1, src2, n, init, binaryOp1, binaryOp2, ce, order, shape).acc

Min(a, b) == IF a < b THEN a ELSE b

(***************************************************************************)
(* Constructors.                                                           *)
(***************************************************************************)
\* a default constructor of a storage without the initialiser {}: the
\* elements are whatever the storage held
DefaultCtor_NoInitializer(T, N) == Vec(T, [i \in 1..N |-> MkInt(1)])

\* Vector() : every element value-initialised
DefaultCtor(T, N) == Vec(T, ZeroValues(N))

\* a direct-list constructor that takes the arguments from the last on
DirectListCtor_Reversed(T, args) ==
    Vec(T, [i \in 1..Len(args) |->
                Convert(args[Len(args) + 1 - i].ty, T, args[Len(args) + 1 - i].val)])

\* Vector(TArgs&&... args) : m_Values{ static_cast<T>(args)... }
DirectListCtor(T, args) ==
    Vec(T, [i \in 1..Len(args) |-> Convert(args[i].ty, T, args[i].val)])

\* requires (sizeof...(TArgs) == dimensions && ...) of that constructor
DirectListRequires(N, args) == Len(args) = N

RECURSIVE CommonType(_)
\* std::common_type_t<T...> of the types of the arguments
CommonType(args) ==
    IF Len(args) = 1 THEN args[1].ty
    ELSE Common(args[1].ty, CommonType(Tail(args)))

\* the deduction guide  Vector(T&&...) -> Vector<common_type_t<T...>, sizeof...(T)>
DeducedT(args) == CommonType(args)
DeducedN(args) == Len(args)

\* a conversion that pads with the last source element instead of T{}
ConversionCtor_PadLast(T, N, other, ce, order) ==
    LET m == transform_unseq(
                Mem(DefaultCtor(T, N), other, NoScalar), "other", Min(N, Dim(other)),
                cast_invoke_result(T, Func("identity")), ce, order)
    IN  [m EXCEPT !.this.m_Values =
            [i \in 1..N |-> IF i > Dim(other) THEN m.this.m_Values[Dim(other)]
                            ELSE m.this.m_Values[i]]]

\* explicit Vector(const Vector<T2, VOtherDimensions>& other)
ConversionCtor(T, N, other, ce, order) ==
    transform_unseq(
        Mem(DefaultCtor(T, N), other, NoScalar),
        "other",
        Min(N, Dim(other)),
        cast_invoke_result(T, Func("identity")),
        ce, order)

(***************************************************************************)
(* Compound assignment with a scalar.  mem.this is the vector, mem.arg the *)
(* scalar argument, and value the reference the parameter is bound to:     *)
(* the argument itself, or an element of the vector when the caller passes *)
(* one (v += v[0]).  The lambdas of +=, -=, *=, /= capture value by        *)
(* reference.                                                              *)
(***************************************************************************)
\* a compound assignment that converts the scalar to value_type first
ScalarAssign_CastFirst(op, mem, value, ce, order) ==
    transform_unseq(
        [mem EXCEPT !.arg = Scalar(mem.this.ty,
                                   Convert(mem.arg.ty, mem.this.ty, mem.arg.val))],
        "this", Dim(mem.this),
        cast_invoke_result(mem.this.ty, LambdaRef(op, value)), ce, order)

\* a compound assignment that adds, whatever the operator
ScalarAssign_AlwaysPlus(op, mem, value, ce, order) ==
    transform_unseq(
        mem, "this", Dim(mem.this),
        cast_invoke_result(mem.this.ty, LambdaRef("+", value)), ce, order)

\* Vector& operator +=(const T2& value), and -=, *=, /= alike
ScalarAssign(op, mem, value, ce, order) ==
    transform_unseq(
        mem, "this", Dim(mem.this),
        cast_invoke_result(mem.this.ty, LambdaRef(op, value)), ce, order)

\* the built-in  value != 0  of the assertions
NonZero(x) ==
    ~ValEq(Convert(x.ty, Common(x.ty, "int"), x.val),
           Convert("int", Common(x.ty, "int"), Zero))

\* assert(value != 0 && "division by 0 is undefined.") of operator /=
DivAssertion(mem, value) == NonZero(Deref(mem, value))

\* const auto value = static_cast<value_type>(rawValue) of operator %=
ModValue(mem, rawValue) ==
    Scalar(mem.this.ty,
           Convert(Deref(mem, rawValue).ty, mem.this.ty, Deref(mem, rawValue).val))

\* an assertion on the scalar as passed, before the conversion
ModAssertion_OnRawValue(mem, rawValue) == NonZero(Deref(mem, rawValue))

\* the assertion of operator %=
ModAssertion(mem, rawValue) ==
    ModValue(mem, rawValue).val.k = "undef" \/ NonZero(ModValue(mem, rawValue))

\* Vector& operator %=(const T2& rawValue)
ModAssign(mem, rawValue, ce, order) ==
    transform_unseq(
        mem, "this", Dim(mem.this),
        NoCast(LambdaVal("%", ModValue(mem, rawValue))), ce, order)

\* the compound operator op= with a scalar
ScalarCompound(op, mem, value, ce, order) ==
    IF op = "%" THEN ModAssign(mem, value, ce, order)
    ELSE ScalarAssign(op, mem, value, ce, order)

\* the builds that differ for the operator: with NDEBUG (TRUE) and without;
\* only / and % have an assertion to compile out
Builds(op) == IF op \in {"/", "%"} THEN BOOLEAN ELSE {TRUE}

\* the assertion the compound operator makes, if any
ScalarAssertion(op, mem, value) ==
    CASE op = "/" -> DivAssertion(mem, value)
      [] op = "%" -> ModAssertion(mem, value)
      [] OTHER -> TRUE

(***************************************************************************)
(* Compound assignment with a Vector.  mem.this is the vector and other    *)
(* names the object the parameter is bound to: "other", or "this" when the *)
(* caller passes the vector itself (v += v).                               *)
(***************************************************************************)
VectorFunc(op) == IF op = "+" THEN Func("plus") ELSE Func("minus")

\* a compound assignment that converts the other element to value_type first
VectorAssign_CastFirst(op, mem, other, ce, order) ==
    transform_unseq_binary(
        [mem EXCEPT !.other = Vec(mem.this.ty,
            [i \in 1..Dim(mem.other) |->
                Convert(mem.other.ty, mem.this.ty, mem.other.m_Values[i])])],
        "this", other, Dim(mem.this),
        cast_invoke_result(mem.this.ty, VectorFunc(op)), ce, order)

\* a compound assignment that combines every element with the first of other
VectorAssign_FirstOfOther(op, mem, other, ce, order) ==
    transform_unseq(
        mem, "this", Dim(mem.this),
        cast_invoke_result(mem.this.ty, LambdaRef(op, ElemRef(other, 1))), ce, order)

\* Vector& operator +=(const Vector<T2, dimensions>& other), and -= alike
VectorAssign(op, mem, other, ce, order) ==
    transform_unseq_binary(
        mem, "this", other, Dim(mem.this),
        cast_invoke_result(mem.this.ty, VectorFunc(op)), ce, order)

(***************************************************************************)
(* The non-compound operators: the vector operand is taken by value (lhs   *)
(* is a copy), the compound operator is applied to the copy and the copy   *)
(* returned.  Each yields [ret, lhs, rhs]: the vector returned and the     *)
(* caller's two operands as the call leaves them.                          *)
(***************************************************************************)
\* the reference a scalar parameter is bound to, seen from the operator:
\* "this" is the copy, the caller's vector is "other"
BoundRef(ref) == IF ref.obj = "this" THEN ElemRef("other", ref.idx) ELSE ref

\* what the operator returns and leaves behind, read from the memory m after
\* its body: the objects named ret, lhs and rhs
Returned(m, ret, lhs, rhs) == [ret |-> m[ret], lhs |-> m[lhs], rhs |-> m[rhs]]

\* an operator that takes the vector by reference and modifies the caller's
ScalarBinary_ByReference(op, vector, scalar, rhs, ce, order) ==
    Returned(ScalarCompound(op, Mem(vector, NoVec, scalar), rhs, ce, order),
             "this", "this", "arg")

\* operator +, -, *, /, % (TVector lhs, T2&& rhs) with a scalar rhs
ScalarBinary(op, vector, scalar, rhs, ce, order) ==
    Returned(ScalarCompound(op, Mem(vector, vector, scalar), BoundRef(rhs), ce, order),
             "this", "other", "arg")

\* a commutative overload that converts the scalar to the element type first
ScalarTimesVector_CastFirst(scalar, vector, lhs, ce, order) ==
    Returned(ScalarAssign_CastFirst("*", Mem(vector, vector, scalar), BoundRef(lhs), ce, order),
             "this", "arg", "other")

\* operator *(T2&& lhs, TVector rhs): the scalar on the left
ScalarTimesVector(scalar, vector, lhs, ce, order) ==
    Returned(ScalarAssign("*", Mem(vector, vector, scalar), BoundRef(lhs), ce, order),
             "this", "arg", "other")

\* operator +, - (TVector lhs, T2&& rhs) with a Vector rhs
VectorBinary(op, lhs, rhs, ce, order) ==
    [Returned(VectorAssign(op, Mem(lhs, rhs, NoScalar), "other", ce, order),
              "this", "this", "other") EXCEPT !.lhs = lhs]

(***************************************************************************)
(* Free functions.                                                         *)
(***************************************************************************)
\* a dot product that subtracts the products from one another
dot_product_Subtracting(lhs, rhs, ce, order, shape) ==
    transform_reduce_unseq(
        Mem(lhs, rhs, NoScalar), "this", "other", Dim(lhs),
        Scalar(lhs.ty, Zero),
        NoCast(Func("minus")),
        cast_invoke_result(lhs.ty, Func("multiplies")),
        ce, order, shape)

\* a dot product that reads lhs for both ranges
dot_product_LhsTwice(lhs, rhs, ce, order, shape) ==
    transform_reduce_unseq(
        Mem(lhs, rhs, NoScalar), "this", "this", Dim(lhs),
        Scalar(lhs.ty, Zero),
        NoCast(Func("plus")),
        cast_invoke_result(lhs.ty, Func("multiplies")),
        ce, order, shape)

\* dot_product(const TVector1& lhs, const TVector2& rhs), T = TVector1's value type
dot_product(lhs, rhs, ce, order, shape) ==
    transform_reduce_unseq(
        Mem(lhs, rhs, NoScalar), "this", "other", Dim(lhs),
        Scalar(lhs.ty, Zero),
        NoCast(Func("plus")),
        cast_invoke_result(lhs.ty, Func("multiplies")),
        ce, order, shape)

\* a squared length that adds the elements to themselves
length_squared_Doubled(vector, ce, order, shape) ==
    transform_reduce_unseq(
        Mem(vector, vector, NoScalar), "this", "other", Dim(vector),
        Scalar(vector.ty, Zero),
        NoCast(Func("plus")),
        cast_invoke_result(vector.ty, Func("plus")),
        ce, order, shape)

\* length_squared(const TVector& vector)
length_squared(vector, ce, order, shape) ==
    dot_product(vector, vector, ce, order, shape)

\* bool operator ==(const Vector&) const = default : element-wise ==
VecEq(a, b) ==
    /\ a.ty = b.ty
    /\ Dim(a) = Dim(b)
    /\ \A i \in 1..Dim(a) : ValEq(a.m_Values[i], b.m_Values[i])

\* the built-in  a == b  on two scalars of any two types
ScalarEq(a, b) ==
    ValEq(Convert(a.ty, Common(a.ty, b.ty), a.val),
          Convert(b.ty, Common(a.ty, b.ty), b.val))

RECURSIVE ArrayEq(_, _, _)
\* operator == of std::array: the elements from i on are compared in order
\* until two differ
ArrayEq(a, b, i) ==
    IF i > Len(a) THEN TRUE
    ELSE IF ~ValEq(a[i], b[i]) THEN FALSE
    ELSE ArrayEq(a, b, i + 1)

\* an equality that looks at the first element only
Equal_FirstOnly(lhs, rhs) == ValEq(lhs.m_Values[1], rhs.m_Values[1])

\* lhs == rhs, the defaulted operator ==: the members m_Values compared
Equal(lhs, rhs) == ArrayEq(lhs.m_Values, rhs.m_Values, 1)

\* lhs != rhs, which the language rewrites to !(lhs == rhs)
NotEqual(lhs, rhs) == ~Equal(lhs, rhs)

\* a bool as a scalar
Bool(b) == Scalar("bool", MkInt(IF b THEN 1 ELSE 0))

\* vector != TVector{} of the assertions
NotNull(vector) == ~VecEq(vector, DefaultCtor(vector.ty, Dim(vector)))

\* the assertions of projected: neither vector is the null vector
ProjectedAssertion(vector, target) == NotNull(vector) /\ NotNull(target)

\* dot / targetLengthSq of projected
ProjectedFactor(vector, target, ce, order, shape) ==
    BinOp("/", dot_product(vector, target, ce, order, shape),
               length_squared(target, ce, order, shape))

\* a projection that scales vector instead of target
projected_ScalesVector(vector, target, ce, order, shape, order2) ==
    ScalarAssign("*",
                 Mem(vector, vector, ProjectedFactor(vector, target, ce, order, shape)),
                 ArgRef, ce, order2)

\* projected(const TVector& vector, TVector target): this is the parameter
\* target, a copy of the caller's, and other the caller's vector; order and
\* shape are those of the two reductions, order2 that of  target *= ...
projected(vector, target, ce, order, shape, order2) ==
    ScalarAssign("*",
                 Mem(target, vector, ProjectedFactor(vector, target, ce, order, shape)),
                 ArgRef, ce, order2)

\* length(vector): std::sqrt(length_squared(vector)), a floating-point value
length(vector, ce, order, shape) ==
    Scalar("float", FloatSqrt(Convert(vector.ty, "float",
                                      length_squared(vector, ce, order, shape).val)))

\* assert(vec != TVector{}) of normalized
NormalizedAssertion(vec) == NotNull(vec)

\* a normalization that divides by the squared length
normalized_BySquare(vec, ce, order, shape, order2) ==
    ScalarAssign("/", Mem(vec, NoVec, length_squared(vec, ce, order, shape)), ArgRef, ce, order2)

\* return vec /= length(vec) of normalized: this is the parameter vec, a copy
\* of the caller's; order and shape are those of the reduction in length,
\* order2 that of the division
normalized(vec, ce, order, shape, order2) ==
    ScalarAssign("/", Mem(vec, NoVec, length(vec, ce, order, shape)), ArgRef, ce, order2)

\* [t](auto a, auto b) { return std::lerp(a, b, t); }
LerpLambda(t) == [kind |-> "lerp", op |-> "", ref |-> ArgRef, value |-> t]

\* an interpolation from vector2 towards vector1
lerp_Swapped(vector1, vector2, t, ce, order) ==
    transform_unseq_binary(Mem(vector1, vector2, t), "other", "this", Dim(vector1),
                           cast_invoke_result(vector1.ty, LerpLambda(t)), ce, order)

\* lerp(TVector vector1, const TVector& vector2, T t): this is the parameter
\* vector1, a copy of the caller's, which is returned; other is vector2
lerp(vector1, vector2, t, ce, order) ==
    transform_unseq_binary(Mem(vector1, vector2, t), "this", "other", Dim(vector1),
                           cast_invoke_result(vector1.ty, LerpLambda(t)), ce, order)

\* an inverse that divides by one instead of dividing one
inversed_Reciprocal(vector, ce, order) ==
    transform_unseq(Mem(vector, NoVec, NoScalar), "this", Dim(vector),
                    NoCast(LambdaVal("/", Scalar("float", Fin(1, One)))), ce, order)

\* inversed(TVector vector): this is the parameter, a copy, which is returned.
\* (1. / value is a double; for a narrower element type the quotient is
\* rounded again when it is stored, which for a division yields the
\* correctly rounded quotient of the element type, the value computed here)
inversed(vector, ce, order) ==
    transform_unseq(Mem(vector, NoVec, NoScalar), "this", Dim(vector),
                    NoCast(Func("inverse")), ce, order)

(***************************************************************************)
(* Element access: operator [] and the accessors x(), y(), z().  Each      *)
(* member function is an overload for a const or a non-const object; the   *)
(* call expression picks one by overload resolution, or does not build.    *)
(*   constThis   the overload is const-qualified                           *)
(*   deducible   its template arguments can be deduced from the call       *)
(*   minDim      its requires-clause: the least dimension it exists for    *)
(*   mutable     it returns value_type&, not const value_type&             *)
(***************************************************************************)
Overload(name, constThis, deducible, minDim, mutable) ==
    [name |-> name, constThis |-> constThis, deducible |-> deducible,
     minDim |-> minDim, mutable |-> mutable]

\* member functions whose y() has no requires-clause
MemberOverloads_YUnconstrained ==
    {Overload("[]", TRUE, TRUE, 1, FALSE), Overload("[]", FALSE, FALSE, 1, TRUE),
     Overload("x", TRUE, TRUE, 1, FALSE), Overload("x", FALSE, TRUE, 1, TRUE),
     Overload("y", TRUE, TRUE, 1, FALSE), Overload("y", FALSE, TRUE, 1, TRUE),
     Overload("z", TRUE, TRUE, 3, FALSE), Overload("z", FALSE, TRUE, 3, TRUE)}

\* the const operator [] takes  std::integral auto index ; the non-const one
\* is declared  template <std::integral TIndex>  and takes
\* std::integral auto index  as well, so that TIndex appears in no parameter
\* and cannot be deduced
MemberOverloads ==
    {Overload("[]", TRUE, TRUE, 1, FALSE), Overload("[]", FALSE, FALSE, 1, TRUE),
     Overload("x", TRUE, TRUE, 1, FALSE), Overload("x", FALSE, TRUE, 1, TRUE),
     Overload("y", TRUE, TRUE, 2, FALSE), Overload("y", FALSE, TRUE, 2, TRUE),
     Overload("z", TRUE, TRUE, 3, FALSE), Overload("z", FALSE, TRUE, 3, TRUE)}

\* the overloads that can be called as  object.name(...)  on an object of
\* dimension N: a const object takes const-qualified member functions only
Viable(name, objConst, N) ==
    {o \in MemberOverloads :
        /\ o.name = name
        /\ o.deducible
        /\ o.minDim <= N
        /\ objConst => o.constThis}

\* overload resolution: the overload whose implicit object parameter has
\* the qualification of the object is the better match
Resolve(name, objConst, N) ==
    IF \E o \in Viable(name, objConst, N) : o.constThis = objConst
    THEN {o \in Viable(name, objConst, N) : o.constThis = objConst}
    ELSE Viable(name, objConst, N)

\* the element x(), y() and z() return: m_Values[0], [1], [2]
AccessorIndex(name) ==
    CASE name = "x" -> 0
      [] name = "y" -> 1
      [] name = "z" -> 2

\* an assertion that rejects the index 0 as well
IndexAssertion_Positive(name, index) == name = "[]" => index > 0

\* assert(std::in_range<std::size_t>(index)) of operator []
IndexAssertion(name, index) == name = "[]" => index >= 0

\* m_Values[static_cast<std::size_t>(index)]: the element referred to (a
\* negative index converts to a value beyond every dimension)
Element(name, index) == IF name = "[]" THEN index ELSE AccessorIndex(name)
InBounds(vector, name, index) == Element(name, index) \in 0..(Dim(vector) - 1)

\* object.name(index) = value  through the reference returned
AssignThrough(vector, name, index, value) ==
    Store(Mem(vector, NoVec, value), Element(name, index) + 1, value).this

(***************************************************************************)
(* Generators (gen::fill, gen::iota, gen::range): zero-argument callables  *)
(* with a state.  value is the stored value of fill and iota; src and pos  *)
(* are the source range of range and the position of its iterator.         *)
(***************************************************************************)
Gen(kind, ty, value, src, pos) ==
    [kind |-> kind, ty |-> ty, value |-> value, src |-> src, pos |-> pos]
fill(ty, value) == Gen("fill", ty, value, <<>>, 1)
iota(ty, value) == Gen("iota", ty, value, <<>>, 1)
range(ty, src) == Gen("range", ty, Zero, src, 1)
NoGen == fill("int", Zero)

\* a range generator that increments before it reads (*++m_Iterator)
GenReturn_PreIncrement(gen) ==
    Scalar(gen.ty, IF gen.kind # "range" THEN gen.value
                   ELSE IF gen.pos + 1 <= Len(gen.src) THEN gen.src[gen.pos + 1] ELSE Undef)

\* an iota generator that steps by two
GenAdvance_ByTwo(gen) ==
    CASE gen.kind = "fill" -> gen
      [] gen.kind = "iota" ->
            [gen EXCEPT !.value = Arith("+", gen.ty, gen.value, MkInt(2))]
      [] gen.kind = "range" -> [gen EXCEPT !.pos = gen.pos + 1]

\* what one invocation returns
GenReturn(gen) ==
    CASE gen.kind = "fill" -> Scalar(gen.ty, gen.value)
      [] gen.kind = "iota" -> Scalar(gen.ty, gen.value)
      [] gen.kind = "range" ->
            Scalar(gen.ty, IF gen.pos <= Len(gen.src) THEN gen.src[gen.pos] ELSE Undef)

\* the generator after one invocation: iota does value++, range ++m_Iterator
GenAdvance(gen) ==
    CASE gen.kind = "fill" -> gen
      [] gen.kind = "iota" ->
            [gen EXCEPT !.value = Arith("+", gen.ty, gen.value, MkInt(1))]
      [] gen.kind = "range" -> [gen EXCEPT !.pos = gen.pos + 1]

\* *first = generator() : one step of std::ranges::generate
GenerateStep(st, i) ==
    [this |-> [st.this EXCEPT !.m_Values[i] =
                   Convert(st.gen.ty, st.this.ty, GenReturn(st.gen).val)],
     gen |-> GenAdvance(st.gen),
     log |-> Append(st.log, [idx |-> i, ret |-> GenReturn(st.gen)])]

RECURSIVE GenerateLoop(_, _)
\* std::ranges::generate(m_Values, std::ref(generator))
GenerateLoop(st, order) ==
    IF order = <<>> THEN st
    ELSE GenerateLoop(GenerateStep(st, Head(order)), Tail(order))

\* a constructor that fills the elements from the last to the first
GeneratorCtor_Backwards(T, N, generator) ==
    GenerateLoop([this |-> DefaultCtor(T, N), gen |-> generator, log |-> <<>>],
                 [i \in 1..N |-> N + 1 - i])

\* explicit Vector(TGenerator generator): generator is the constructor's own
\* copy of the argument
GeneratorCtor(T, N, generator) ==
    GenerateLoop([this |-> DefaultCtor(T, N), gen |-> generator, log |-> <<>>],
                 Ascending(N))

\* a constructor that takes the generator by reference
CallerGenerator_ByReference(st, generator) == st.gen

\* the caller's generator object after the constructor st has run: the
\* parameter is taken by value, std::ref(generator) refers to the parameter,
\* and the argument is left as it was
CallerGenerator(st, generator) == generator

(***************************************************************************)
(* Inputs.                                                                 *)
(***************************************************************************)
Half == One \div 2
\* values of each type: negative, small, fractional, and the extremes
Sample(ty) ==
    CASE ty = "int" -> {MkInt(-1), MkInt(1), MkInt(IntMax)}
      [] ty = "uint" -> {MkInt(1), MkInt(UIntMax)}
      [] ty = "float" -> {Fin(1, Half), MkFloat(1), Fin(1, FloatMaxU)}
\* pairs of values for vectors with differing elements
SamplePairs(ty) ==
    CASE ty = "int" -> {<<MkInt(2), MkInt(-3)>>, <<MkInt(IntMin), MkInt(0)>>,
                        <<MkInt((IntMax + 1) \div 4), MkInt((IntMax - 1) \div 3)>>}
      [] ty = "uint" -> {<<MkInt(0), MkInt(5)>>}
      [] ty = "float" -> {<<Fin(-1, One + Half), MkFloat(3)>>, <<Fin(1, 0), Fin(1, 2 * One + Half)>>}

Alternate(a, b, n) == [i \in 1..n |-> IF i % 2 = 1 THEN a ELSE b]
IotaValues(b, n) == [i \in 1..n |-> MkInt(b + i - 1)]

\* the element sequences of the input vectors of type ty and dimension n
InputValues(ty, n) ==
    {Alternate(a, a, n) : a \in Sample(ty)}
    \cup {Alternate(p[1], p[2], n) : p \in SamplePairs(ty)}
    \cup (IF ty = "float" THEN {[i \in 1..n |-> MkFloat(i)]} ELSE {IotaValues(1, n)})

\* the vectors the operations are applied to
InputVectors ==
    UNION {{Vec(ty, vals) : vals \in InputValues(ty, n)} : ty \in Types, n \in 1..MaxDim}

\* an operation with undefined behaviour may leave any value behind
Arbitrary(ty) ==
    IF ty = "float" THEN {Fin(1, 0), MkFloat(1), Inf(1)}
    ELSE IF ty = "uint" THEN {MkInt(0), MkInt(1), MkInt(UIntMax)}
    ELSE {MkInt(IntMin), MkInt(0), MkInt(IntMax)}

RECURSIVE OutcomeValues(_, _)
\* the elements computed without undefined behaviour, and anything in the others
OutcomeValues(ty, vals) ==
    IF vals = <<>> THEN {<<>>}
    ELSE {<<h>> \o t : h \in (IF Head(vals).k = "undef" THEN Arbitrary(ty) ELSE {Head(vals)}),
                       t \in OutcomeValues(ty, Tail(vals))}

\* what a call that computed the vector x can leave behind
Outcomes(x) == {Vec(x.ty, vals) : vals \in OutcomeValues(x.ty, x.m_Values)}

\* the generators handed to the constructor
InputGenerators ==
    UNION {{fill(ty, b) : b \in Sample(ty)} : ty \in Types}
    \cup UNION {{iota(ty, b) : b \in Sample(ty) \cup {MkInt(2)}} : ty \in IntegralTypes}
    \cup {range(ty, IotaValues(b, n)) : ty \in IntegralTypes, b \in {1, 3}, n \in 1..MaxDim}
    \cup {range("float", vals) : vals \in InputValues("float", MaxDim)}

\* the scalars the operators are called with
InputScalars ==
    {Scalar("int", MkInt(n)) : n \in {-2, 0, 1, 5, IntMax}}
    \cup {Scalar("uint", MkInt(n)) : n \in {1, 5, UIntMax}}
    \cup {Scalar("float", x) : x \in {MkFloat(-2), Fin(-1, Half), Fin(1, 0), Fin(1, Half),
                                      MkFloat(1), Fin(1, FloatMaxU)}}

\* a scalar argument: an object of its own (ref = ArgRef), or an element of
\* the vector x the operator is called on
ScalarArgs(x) ==
    {[s |-> s, ref |-> ArgRef] : s \in InputScalars}
    \cup {[s |-> Scalar(x.ty, x.m_Values[k]), ref |-> ElemRef("this", k)] : k \in 1..Dim(x)}

\* the vectors a binary operation of x is called with as the other operand
Companions(x) == {y \in InputVectors : Dim(y) = Dim(x)}

\* what a call that computed the scalar r can return
OutcomeScalars(r) ==
    IF r.val.k = "undef" THEN {Scalar(r.ty, a) : a \in Arbitrary(r.ty)} ELSE {r}

VARIABLES
    v,      \* the Vector an operation is called on (its left operand)
    w,      \* the other Vector operand, as the call leaves it
    x,      \* the scalar operand, as the call leaves it
    g,      \* the caller's generator object
    res,    \* the Vector the call returned
    ret,    \* the scalar the call returned
    call,   \* the call made: its name and its arguments as they were passed
    log,    \* the invocations of the generator made during the call
    ub,     \* the call executed an operation with undefined behaviour
    aborted \* the call failed an assertion (a build without NDEBUG)

vars == <<v, w, x, g, res, ret, call, log, ub, aborted>>

NoCall ==
    [fn |-> "none", op |-> "", v0 |-> NoVec, w0 |-> NoVec, g0 |-> NoGen,
     s |-> NoScalar, ref |-> ArgRef, T |-> "int", N |-> 0, ce |-> FALSE,
     self |-> FALSE, order |-> <<>>, shape |-> "",
     idx |-> 0, const |-> FALSE, built |-> TRUE, args |-> <<>>,
     src |-> <<>>, func |-> NoCast(Func("identity")),
     combine |-> NoCast(Func("identity"))]

\* a vector to operate on
Init ==
    /\ v \in InputVectors
    /\ w = NoVec
    /\ x = NoScalar
    /\ g = NoGen
    /\ res = NoVec
    /\ ret = NoScalar
    /\ call = NoCall
    /\ log = <<>>
    /\ ub = FALSE
    /\ aborted = FALSE

\* a generator to construct from
InitGen ==
    /\ v = NoVec
    /\ w = NoVec
    /\ x = NoScalar
    /\ g \in InputGenerators
    /\ res = NoVec
    /\ ret = NoScalar
    /\ call = NoCall
    /\ log = <<>>
    /\ ub = FALSE
    /\ aborted = FALSE

Ready == call.fn = "none"

(***************************************************************************)
(* static_cast<Vector<T, N>>(v)                                            *)
(***************************************************************************)
Convert_(T, N, ce, order) ==
    /\ Ready
    /\ T # v.ty \/ N # Dim(v)
    /\ \E m \in {ConversionCtor(T, N, v, ce, order)} :
           /\ ub' = HasUndef(m.this.m_Values)
           /\ res' \in Outcomes(m.this)
           /\ v' = m.other
    /\ call' = [NoCall EXCEPT !.fn = "convert", !.v0 = v, !.T = T, !.N = N, !.ce = ce]
    /\ UNCHANGED <<w, x, g, ret, log, aborted>>

DoConvert ==
    \E T \in Types, N \in 1..(MaxDim + 2), ce \in BOOLEAN :
        \E order \in CallOrders(ce, Min(N, Dim(v))) : Convert_(T, N, ce, order)

NextConv == DoConvert
SpecConv == Init /\ [][NextConv]_vars

(***************************************************************************)
(* C1: the explicitly converted vector has N elements of type T; element   *)
(* i is static_cast<T>(source[i]) for i < min(N, M), the elements from M   *)
(* on are zero, the source elements from N on are dropped, and the source  *)
(* is unchanged.                                                           *)
(***************************************************************************)
C1_Conversion ==
    (call.fn = "convert" /\ ~ub) =>
        /\ res.ty = call.T
        /\ Dim(res) = call.N
        /\ \A i \in 1..call.N :
              res.m_Values[i] =
                  IF i <= Dim(call.v0)
                  THEN Convert(call.v0.ty, call.T, call.v0.m_Values[i])
                  ELSE Zero
        /\ v = call.v0

\* {1,2,3} converted to five dimensions at run time is {1,2,3,0,0}
C1_Witness ==
    /\ call.fn = "convert" /\ ~ub /\ ~call.ce
    /\ call.v0 = Vec("int", <<MkInt(1), MkInt(2), MkInt(3)>>)
    /\ call.T = "float" /\ call.N = 5
    /\ res.m_Values = <<MkFloat(1), MkFloat(2), MkFloat(3), Zero, Zero>>

(***************************************************************************)
(* Vector<T, N>{ g }                                                       *)
(***************************************************************************)
Generate_(T, N) ==
    /\ Ready
    /\ \E st \in {GeneratorCtor(T, N, g)} :
           /\ ub' = (HasUndef(st.this.m_Values) \/ st.gen.value.k = "undef")
           /\ res' \in Outcomes(st.this)
           /\ log' = st.log
           /\ g' = CallerGenerator(st, g)
    /\ call' = [NoCall EXCEPT !.fn = "generate", !.g0 = g, !.T = T, !.N = N]
    /\ UNCHANGED <<v, w, x, ret, aborted>>

DoGenerate == \E T \in Types, N \in 1..MaxDim : Generate_(T, N)

NextGen == DoGenerate
SpecGen == InitGen /\ [][NextGen]_vars

\* the value a generator returns at its i-th invocation, i counted from 1
\* (unsigned arithmetic is modulo 2^IntBits)
NthValue(gen, i) ==
    CASE gen.kind = "fill" -> gen.value
      [] gen.kind = "iota" ->
            IF gen.ty = "uint" THEN MkInt(Wrap("uint", Num(gen.value) + i - 1))
            ELSE MkInt(Num(gen.value) + i - 1)
      [] gen.kind = "range" -> gen.src[gen.pos + i - 1]

(***************************************************************************)
(* C2: Vector<T, N>{G} invokes G exactly N times, for the elements in      *)
(* ascending order, and element i is the value of the i-th invocation      *)
(* (converted to T).                                                       *)
(***************************************************************************)
C2_GeneratorCtor ==
    (call.fn = "generate" /\ ~ub) =>
        /\ res.ty = call.T
        /\ Dim(res) = call.N
        /\ Len(log) = call.N
        /\ \A i \in 1..call.N :
              /\ log[i].idx = i
              /\ log[i].ret = Scalar(call.g0.ty, NthValue(call.g0, i))
              /\ res.m_Values[i] = Convert(call.g0.ty, call.T, log[i].ret.val)

\* iota{1} over three dimensions yields {1,2,3}
C2_Witness ==
    /\ call.fn = "generate" /\ ~ub
    /\ call.g0 = iota("int", MkInt(1)) /\ call.T = "int" /\ call.N = 3
    /\ res = Vec("int", <<MkInt(1), MkInt(2), MkInt(3)>>)

(***************************************************************************)
(* v op= s  for op in +, -, *, /, %                                        *)
(***************************************************************************)
CompoundScalar_(op, arg, ndebug, ce, order) ==
    /\ Ready
    /\ op = "%" => v.ty \in IntegralTypes
    /\ IF ~ndebug /\ ~ScalarAssertion(op, Mem(v, NoVec, arg.s), arg.ref)
       THEN aborted' = TRUE /\ ub' = FALSE /\ v' = v /\ res' = NoVec /\ x' = arg.s
       ELSE \E m \in {ScalarCompound(op, Mem(v, NoVec, arg.s), arg.ref, ce, order)} :
                /\ aborted' = FALSE
                /\ ub' = HasUndef(m.this.m_Values)
                /\ v' \in Outcomes(m.this)
                /\ res' = v'
                /\ x' = m.arg
    /\ call' = [NoCall EXCEPT !.fn = "compound_scalar", !.op = op, !.v0 = v,
                              !.s = arg.s, !.ref = arg.ref, !.ce = ce]
    /\ UNCHANGED <<w, g, ret, log>>

DoCompoundScalar ==
    \E op \in {"+", "-", "*", "/", "%"}, arg \in ScalarArgs(v), ce \in BOOLEAN :
        \E ndebug \in Builds(op), order \in CallOrders(ce, Dim(v)) :
            CompoundScalar_(op, arg, ndebug, ce, order)

(***************************************************************************)
(* v op= w  for op in +, -  and a Vector w; self: the caller passes v      *)
(* itself (v += v)                                                         *)
(***************************************************************************)
CompoundVector_(op, other, self, ce, order) ==
    /\ Ready
    /\ \E m \in {VectorAssign(op, Mem(v, IF self THEN NoVec ELSE other, NoScalar),
                                 IF self THEN "this" ELSE "other", ce, order)} :
           /\ ub' = HasUndef(m.this.m_Values)
           /\ v' \in Outcomes(m.this)
           /\ res' = v'
           /\ w' = IF self THEN v' ELSE m.other
    /\ call' = [NoCall EXCEPT !.fn = "compound_vector", !.op = op, !.v0 = v,
                              !.w0 = other, !.self = self, !.ce = ce]
    /\ UNCHANGED <<x, g, ret, log, aborted>>

DoCompoundVector ==
    \E op \in {"+", "-"}, ce \in BOOLEAN :
        \E order \in CallOrders(ce, Dim(v)) :
            \/ \E other \in Companions(v) : CompoundVector_(op, other, FALSE, ce, order)
            \/ CompoundVector_(op, v, TRUE, ce, order)

NextCompound == DoCompoundScalar \/ DoCompoundVector
SpecCompound == Init /\ [][NextCompound]_vars

\* static_cast<T>(a op b), the operation evaluated in the common type
CastOf(T, op, a, b) == Convert(BinOp(op, a, b).ty, T, BinOp(op, a, b).val)

SameValues(a, b) ==
    /\ Dim(a) = Dim(b)
    /\ \A i \in 1..Dim(a) :
          /\ a.m_Values[i].k = "fin" /\ b.m_Values[i].k = "fin"
          /\ Num(a.m_Values[i]) * (IF a.ty = "float" THEN 1 ELSE One)
                = Num(b.m_Values[i]) * (IF b.ty = "float" THEN 1 ELSE One)

BinaryScalar_(op, arg, ndebug, ce, order) ==
    /\ Ready
    /\ op = "%" => v.ty \in IntegralTypes
    /\ IF ~ndebug /\ ~ScalarAssertion(op, Mem(v, v, arg.s), BoundRef(arg.ref))
       THEN aborted' = TRUE /\ ub' = FALSE /\ res' = NoVec /\ v' = v /\ x' = arg.s
       ELSE \E r \in {IF op = "s*" THEN ScalarTimesVector(arg.s, v, arg.ref, ce, order)
                      ELSE ScalarBinary(op, v, arg.s, arg.ref, ce, order)} :
                /\ aborted' = FALSE
                /\ ub' = HasUndef(r.ret.m_Values)
                /\ res' \in Outcomes(r.ret)
                /\ v' = IF op = "s*" THEN r.rhs ELSE r.lhs
                /\ x' = IF op = "s*" THEN r.lhs ELSE r.rhs
    /\ call' = [NoCall EXCEPT !.fn = "binary_scalar", !.op = op, !.v0 = v,
                              !.s = arg.s, !.ref = arg.ref, !.ce = ce]
    /\ UNCHANGED <<w, g, ret, log>>

DoBinaryScalar ==
    \E op \in {"+", "-", "*", "/", "%", "s*"}, arg \in ScalarArgs(v), ce \in BOOLEAN :
        \E ndebug \in Builds(op), order \in CallOrders(ce, Dim(v)) :
            BinaryScalar_(op, arg, ndebug, ce, order)

(***************************************************************************)
(* v op w  for op in +, -  and a Vector w                                  *)
(***************************************************************************)
BinaryVector_(op, other, ce, order) ==
    /\ Ready
    /\ \E r \in {VectorBinary(op, v, other, ce, order)} :
           /\ ub' = HasUndef(r.ret.m_Values)
           /\ res' \in Outcomes(r.ret)
           /\ v' = r.lhs
           /\ w' = r.rhs
    /\ call' = [NoCall EXCEPT !.fn = "binary_vector", !.op = op, !.v0 = v,
                              !.w0 = other, !.ce = ce]
    /\ UNCHANGED <<x, g, ret, log, aborted>>

DoBinaryVector ==
    \E op \in {"+", "-"}, other \in Companions(v), ce \in BOOLEAN :
        \E order \in CallOrders(ce, Dim(v)) : BinaryVector_(op, other, ce, order)

Next == DoBinaryScalar \/ DoBinaryVector
Spec == Init /\ [][Next]_vars

\* the compound operator a non-compound one corresponds to
CompoundOf(op) == IF op = "s*" THEN "*" ELSE op

(***************************************************************************)
(* C5: a non-compound operator (+, -, *, /, % with a scalar, + and - with  *)
(* a Vector) returns the vector its compound operator produces on a copy   *)
(* of the vector operand, and both of the caller's operands are left as    *)
(* they were.                                                              *)
(***************************************************************************)
C5_NonCompound ==
    /\ (call.fn = "binary_scalar" /\ ~ub /\ ~aborted) =>
          /\ res = ScalarCompound(CompoundOf(call.op), Mem(call.v0, NoVec, call.s),
                                  ArgRef, TRUE, <<>>).this
          /\ v = call.v0
          /\ x = call.s
    /\ (call.fn = "binary_vector" /\ ~ub) =>
          /\ res = VectorAssign(call.op, Mem(call.v0, call.w0, NoScalar),
                                "other", TRUE, <<>>).this
          /\ v = call.v0
          /\ w = call.w0

\* {1,2,3} * 5 run unsequenced returns {5,10,15} and leaves {1,2,3} and 5
C5_Witness ==
    /\ call.fn = "binary_scalar" /\ call.op = "*" /\ ~ub /\ ~aborted /\ ~call.ce
    /\ call.v0 = Vec("int", <<MkInt(1), MkInt(2), MkInt(3)>>)
    /\ call.s = Scalar("int", MkInt(5))
    /\ res = Vec("int", <<MkInt(5), MkInt(10), MkInt(15)>>)
    /\ v = call.v0 /\ x = call.s

\* the vector  r - s  for the scalar s of the call (no element is read after
\* it is written, so the order of the visit is immaterial here)
MinusScalar(r) == ScalarBinary("-", r, call.s, ArgRef, TRUE, <<>>).ret
\* the vector  r - w0  for the other vector of the call
MinusVector(r) == VectorBinary("-", r, call.w0, TRUE, <<>>).ret

\* the sum the call returned is of an integer vector, and subtracting the
\* same operand from it has no undefined behaviour either
RoundTripScalar ==
    /\ call.fn = "binary_scalar" /\ call.op = "+" /\ ~ub
    /\ call.v0.ty \in IntegralTypes
    /\ ~HasUndef(MinusScalar(res).m_Values)
RoundTripVector ==
    /\ call.fn = "binary_vector" /\ call.op = "+" /\ ~ub
    /\ call.v0.ty \in IntegralTypes
    /\ ~HasUndef(MinusVector(res).m_Values)

(***************************************************************************)
(* C6 as stated: for every vector v of an integer element type and every   *)
(* scalar x the operators accept, (v + x) - x == v, and for every vector   *)
(* v2 of the same dimension, (v + v2) - v2 == v.                           *)
(***************************************************************************)
C6_RoundTrip_AnyOperand ==
    /\ RoundTripScalar => VecEq(MinusScalar(res), call.v0)
    /\ RoundTripVector => VecEq(MinusVector(res), call.v0)

(***************************************************************************)
(* C6, amended: for every vector v of an integer element type, every       *)
(* scalar x of an integer type and every same-dimension vector v2 of an    *)
(* integer element type, (v + x) - x == v and (v + v2) - v2 == v, unless   *)
(* an addition or subtraction overflows the signed type.                   *)
(***************************************************************************)
C6_RoundTrip ==
    /\ (RoundTripScalar /\ call.s.ty \in IntegralTypes) =>
          VecEq(MinusScalar(res), call.v0)
    /\ (RoundTripVector /\ call.w0.ty \in IntegralTypes) =>
          VecEq(MinusVector(res), call.v0)

\* ({2,-3,2} + 5u) - 5u is {2,-3,2}: the sum {7,2,7} is computed modulo 2^IntBits
C6_Witness ==
    /\ RoundTripScalar /\ ~call.ce
    /\ call.v0 = Vec("int", <<MkInt(2), MkInt(-3), MkInt(2)>>)
    /\ call.s = Scalar("uint", MkInt(5))
    /\ res = Vec("int", <<MkInt(7), MkInt(2), MkInt(7)>>)
    /\ MinusScalar(res) = call.v0

DotProduct_(other, ce, order, shape) ==
    /\ Ready
    /\ \E r \in {dot_product(v, other, ce, order, shape)} :
           /\ ub' = (r.val.k = "undef")
           /\ ret' \in OutcomeScalars(r)
    /\ w' = other
    /\ call' = [NoCall EXCEPT !.fn = "dot_product", !.v0 = v, !.w0 = other,
                              !.ce = ce, !.order = order, !.shape = shape]
    /\ UNCHANGED <<v, x, g, res, log, aborted>>

DoDotProduct ==
    \E other \in Companions(v), ce \in BOOLEAN :
        \E order \in CallOrders(ce, Dim(v) + 1), shape \in CallShapes(ce) :
            DotProduct_(other, ce, order, shape)

LengthSquared_(ce, order, shape) ==
    /\ Ready
    /\ \E r \in {length_squared(v, ce, order, shape)} :
           /\ ub' = (r.val.k = "undef")
           /\ ret' \in OutcomeScalars(r)
    /\ call' = [NoCall EXCEPT !.fn = "length_squared", !.v0 = v,
                              !.ce = ce, !.order = order, !.shape = shape]
    /\ UNCHANGED <<v, w, x, g, res, log, aborted>>

DoLengthSquared ==
    \E ce \in BOOLEAN :
        \E order \in CallOrders(ce, Dim(v) + 1), shape \in CallShapes(ce) :
            LengthSquared_(ce, order, shape)

NextReduce == DoDotProduct \/ DoLengthSquared
SpecReduce == Init /\ [][NextReduce]_vars
\* the products v1[i] * v2[i], each in the common type of the element types,
\* preceded by the zero of that type
ProductsOf(a, b) ==
    <<Scalar(Common(a.ty, b.ty), Zero)>> \o
    [i \in 1..Dim(a) |-> BinOp("*", Scalar(a.ty, a.m_Values[i]),
                                    Scalar(b.ty, b.m_Values[i]))]

RECURSIVE SumsOf(_, _)
\* the sums of the terms p[i], i in S, added in any order and grouping
SumsOf(p, S) ==
    IF Cardinality(S) = 1 THEN {p[i] : i \in S}
    ELSE UNION {{BinOp("+", a, b) : a \in SumsOf(p, A), b \in SumsOf(p, S \ A)} :
                A \in {B \in SUBSET S : /\ B # S
                                        /\ (CHOOSE m \in S : \A j \in S : m <= j) \in B}}

\* the sum over i of v1[i] * v2[i], converted to the type T
SumOfProducts(T, a, b) ==
    {Convert(r.ty, T, r.val) : r \in SumsOf(ProductsOf(a, b), 1..(Dim(a) + 1))}
        \ {Undef}

\* dot_product(w0, v0) as the same build evaluates it
SwappedDot == dot_product(call.w0, call.v0, call.ce, call.order, call.shape)

(***************************************************************************)
(* C8 as stated: dot_product(v1, v2) is the sum over i of v1[i] * v2[i],   *)
(* returned in v1's element type, also when v2 has another element type;   *)
(* neither argument is modified.                                           *)
(***************************************************************************)
C8_DotProduct ==
    (call.fn = "dot_product" /\ ~ub) =>
        /\ ret.ty = call.v0.ty
        /\ \E r \in SumOfProducts(call.v0.ty, call.v0, call.w0) :
              r = ret.val \/ ValEq(r, ret.val)
        /\ v = call.v0
        /\ w = call.w0

C10_LengthSquared ==
    (call.fn = "length_squared" /\ ~ub) =>
        /\ ret = dot_product(call.v0, call.v0, call.ce, call.order, call.shape)
        /\ ret.ty = call.v0.ty
        /\ \E r \in SumOfProducts(call.v0.ty, call.v0, call.v0) :
              r = ret.val \/ ValEq(r, ret.val)
        /\ v = call.v0

\* length_squared({1,2,3}) is 14
C10_Witness ==
    /\ call.fn = "length_squared" /\ ~ub /\ ~call.ce
    /\ call.v0 = Vec("int", <<MkInt(1), MkInt(2), MkInt(3)>>)
    /\ ret = Scalar("int", MkInt(14))

(***************************************************************************)
(* projected(vector, target)                                               *)
(***************************************************************************)
\* the vectors {a, b, a, ...} of each type and dimension
Patterns(a, b) ==
    {Vec(ty, Alternate(Convert("int", ty, MkInt(a)), Convert("int", ty, MkInt(b)), n)) :
        ty \in Types, n \in 1..MaxDim}

\* the vectors projected: the input vectors, {3,0,..} and the null vectors
ProjectedVectors == InputVectors \cup Patterns(3, 0) \cup Patterns(0, 0)

\* the targets a vector is projected onto: vectors of its own type
ProjectedTargets(vector) ==
    {t \in InputVectors \cup Patterns(2, 0) \cup Patterns(0, 3) \cup Patterns(0, 0) :
        t.ty = vector.ty /\ Dim(t) = Dim(vector)}

\* a vector to project
InitProj ==
    /\ v \in ProjectedVectors
    /\ w = NoVec
    /\ x = NoScalar
    /\ g = NoGen
    /\ res = NoVec
    /\ ret = NoScalar
    /\ call = NoCall
    /\ log = <<>>
    /\ ub = FALSE
    /\ aborted = FALSE

Projected_(target, ndebug, ce, order, shape, order2) ==
    /\ Ready
    /\ IF ~ndebug /\ ~ProjectedAssertion(v, target)
       THEN aborted' = TRUE /\ ub' = FALSE /\ v' = v /\ res' = NoVec
       ELSE \E m \in {projected(v, target, ce, order, shape, order2)} :
                /\ aborted' = FALSE
                /\ ub' = (HasUndef(m.this.m_Values) \/ m.arg.val.k = "undef")
                /\ res' \in Outcomes(m.this)
                /\ v' = m.other
    /\ w' = target
    /\ call' = [NoCall EXCEPT !.fn = "projected", !.v0 = v, !.w0 = target, !.ce = ce,
                              !.order = order, !.shape = shape]
    /\ UNCHANGED <<x, g, ret, log>>

\* the builds that differ for the call: with NDEBUG (TRUE) and without
ProjectedBuilds(vector, target) ==
    IF ProjectedAssertion(vector, target) THEN {TRUE} ELSE BOOLEAN

DoProjected ==
    \E target \in ProjectedTargets(v), ce \in BOOLEAN :
      \E ndebug \in ProjectedBuilds(v, target) :
        \E order \in CallOrders(ce, Dim(v) + 1), shape \in CallShapes(ce) :
            \E order2 \in CallOrders(ce, Dim(v)) :
                Projected_(target, ndebug, ce, order, shape, order2)

NextProj == DoProjected
SpecProj == InitProj /\ [][NextProj]_vars

\* target * (dot_product(vector, target) / length_squared(target)), the
\* reductions evaluated as the call evaluated them
ProjectionFormula ==
    ScalarBinary("*", call.w0,
                 BinOp("/", dot_product(call.v0, call.w0, call.ce, call.order, call.shape),
                            length_squared(call.w0, call.ce, call.order, call.shape)),
                 ArgRef, TRUE, <<>>).ret

\* the vector of type ty with the numbers a, b as its first elements,
\* a again as the third
Numbers(ty, a, b, n) ==
    Vec(ty, Alternate(Convert("int", ty, MkInt(a)), Convert("int", ty, MkInt(b)), n))

\* the call made is  projected({a1, a2}, {b1, b2})
ProjectedCall(a1, a2, b1, b2) ==
    /\ call.fn = "projected" /\ ~ub /\ ~aborted
    /\ Dim(call.v0) = 2
    /\ call.v0 = Numbers(call.v0.ty, a1, a2, 2)
    /\ call.w0 = Numbers(call.v0.ty, b1, b2, 2)

C11_IntegerQuotient ==
    /\ ProjectedCall(1, 1, 2, 0) /\ call.v0.ty = "int"
    /\ res = Vec("int", <<Zero, Zero>>)

(***************************************************************************)
(* Element access: reading  object[index], object.x() ...  of a const or   *)
(* non-const object, and assigning through what a non-const object         *)
(* returns.                                                                *)
(***************************************************************************)
\* the indices operator [] is called with (those of the accessors are fixed)
Indices(name) == IF name = "[]" THEN (-1)..MaxDim ELSE {0}

\* the builds that differ for the call: with NDEBUG (TRUE) and without
AccessBuilds(name, index) == IF IndexAssertion(name, index) THEN {TRUE} ELSE BOOLEAN

Read_(name, index, objConst, ndebug) ==
    /\ Ready
    /\ IF Resolve(name, objConst, Dim(v)) = {}
       THEN aborted' = FALSE /\ ub' = FALSE /\ ret' = NoScalar
       ELSE IF ~ndebug /\ ~IndexAssertion(name, index)
       THEN aborted' = TRUE /\ ub' = FALSE /\ ret' = NoScalar
       ELSE IF ~InBounds(v, name, index)
       THEN aborted' = FALSE /\ ub' = TRUE
            /\ ret' \in {Scalar(v.ty, a) : a \in Arbitrary(v.ty)}
       ELSE aborted' = FALSE /\ ub' = FALSE
            /\ ret' = Scalar(v.ty, v.m_Values[Element(name, index) + 1])
    /\ call' = [NoCall EXCEPT !.fn = "read", !.op = name, !.v0 = v, !.idx = index,
                              !.const = objConst,
                              !.built = (Resolve(name, objConst, Dim(v)) # {})]
    /\ UNCHANGED <<v, w, x, g, res, log>>

DoRead ==
    \E name \in {"[]", "x", "y", "z"}, objConst \in BOOLEAN :
        \E index \in Indices(name) :
            \E ndebug \in AccessBuilds(name, index) :
                Read_(name, index, objConst, ndebug)

\* the assignment builds when the call picks an overload that returns a
\* reference to a non-const element
Assignable(name, N) ==
    /\ Resolve(name, FALSE, N) # {}
    /\ \A o \in Resolve(name, FALSE, N) : o.mutable

Assign_(name, index, value, ndebug) ==
    /\ Ready
    /\ IF ~Assignable(name, Dim(v))
       THEN aborted' = FALSE /\ ub' = FALSE /\ v' = v
       ELSE IF ~ndebug /\ ~IndexAssertion(name, index)
       THEN aborted' = TRUE /\ ub' = FALSE /\ v' = v
       ELSE IF ~InBounds(v, name, index)
       THEN aborted' = FALSE /\ ub' = TRUE /\ v' = v
       ELSE aborted' = FALSE
            /\ ub' = HasUndef(AssignThrough(v, name, index, value).m_Values)
            /\ v' \in Outcomes(AssignThrough(v, name, index, value))
    /\ x' = value
    /\ call' = [NoCall EXCEPT !.fn = "assign", !.op = name, !.v0 = v, !.idx = index,
                              !.s = value, !.built = Assignable(name, Dim(v))]
    /\ UNCHANGED <<w, g, res, ret, log>>

DoAssign ==
    \E name \in {"[]", "x", "y", "z"}, value \in InputScalars :
        \E index \in Indices(name) :
            \E ndebug \in AccessBuilds(name, index) :
                Assign_(name, index, value, ndebug)

NextAccess == DoRead \/ DoAssign
SpecAccess == Init /\ [][NextAccess]_vars

\* the vector with element k (counted from 0) replaced by the scalar s
\* converted to the element type
WithElement(vector, k, s) ==
    [vector EXCEPT !.m_Values[k + 1] = Convert(s.ty, vector.ty, s.val)]

(***************************************************************************)
(* C12: v[i] with an integral index i in [0, N) on a non-const Vector is a *)
(* mutable reference to component i: assigning through it changes          *)
(* component i and no other; on a const Vector it reads the same           *)
(* component.                                                              *)
(***************************************************************************)
C12_Subscript ==
    /\ (/\ call.fn = "assign" /\ call.op = "[]" /\ ~ub
        /\ call.idx \in 0..(Dim(call.v0) - 1)) =>
          /\ call.built
          /\ v = WithElement(call.v0, call.idx, call.s)
    /\ (/\ call.fn = "read" /\ call.op = "[]" /\ call.const
        /\ call.idx \in 0..(Dim(call.v0) - 1)) =>
          /\ call.built
          /\ ret = Scalar(call.v0.ty, call.v0.m_Values[call.idx + 1])
          /\ v = call.v0

\* v[0] = 5 on a non-const Vector<int, 3> does not build
C12_AssignRejected ==
    /\ call.fn = "assign" /\ call.op = "[]" /\ call.idx = 0
    /\ call.v0 = Vec("int", <<MkInt(1), MkInt(2), MkInt(3)>>)
    /\ call.s = Scalar("int", MkInt(5))
    /\ ~call.built

(***************************************************************************)
(* C16: x() exists for every N and refers to component 0, y() exists       *)
(* exactly when N >= 2 and refers to component 1, z() exactly when N >= 3  *)
(* and refers to component 2; the const and the non-const form of each     *)
(* denote the same component.                                              *)
(***************************************************************************)
C16_Accessors ==
    (call.fn \in {"read", "assign"} /\ call.op \in {"x", "y", "z"}) =>
        /\ call.built <=> Dim(call.v0) >= (CASE call.op = "x" -> 1
                                             [] call.op = "y" -> 2
                                             [] call.op = "z" -> 3)
        /\ (call.built /\ call.fn = "read") =>
              /\ ret = Scalar(call.v0.ty,
                              call.v0.m_Values[CASE call.op = "x" -> 1
                                                 [] call.op = "y" -> 2
                                                 [] call.op = "z" -> 3])
              /\ v = call.v0
        /\ (call.built /\ call.fn = "assign" /\ ~ub) =>
              v = WithElement(call.v0, CASE call.op = "x" -> 0
                                         [] call.op = "y" -> 1
                                         [] call.op = "z" -> 2, call.s)
        /\ ~aborted

\* {1,2,3}.z() = 5 makes {1,2,5}
C16_Witness ==
    /\ call.fn = "assign" /\ call.op = "z" /\ call.built /\ ~ub
    /\ call.v0 = Vec("int", <<MkInt(1), MkInt(2), MkInt(3)>>)
    /\ call.s = Scalar("int", MkInt(5))
    /\ v = Vec("int", <<MkInt(1), MkInt(2), MkInt(5)>>)

(***************************************************************************)
(* v == w  and  v != w  for two vectors of one type                        *)
(***************************************************************************)
\* the vectors compared: the input vectors and float vectors with a NaN,
\* an infinity or a negative zero among the elements
ComparedVectors ==
    InputVectors
    \cup {Vec("float", Alternate(a, MkFloat(1), n)) :
              a \in {NaN, Inf(1), Fin(-1, 0)}, n \in 1..MaxDim}

\* the vectors a vector is compared with: those of its type, itself included
ComparedWith(vector) ==
    {y \in ComparedVectors : y.ty = vector.ty /\ Dim(y) = Dim(vector)}

\* a vector to compare
InitEq ==
    /\ v \in ComparedVectors
    /\ w = NoVec
    /\ x = NoScalar
    /\ g = NoGen
    /\ res = NoVec
    /\ ret = NoScalar
    /\ call = NoCall
    /\ log = <<>>
    /\ ub = FALSE
    /\ aborted = FALSE

Compare_(op, other) ==
    /\ Ready
    /\ ret' = Bool(IF op = "==" THEN Equal(v, other) ELSE NotEqual(v, other))
    /\ w' = other
    /\ call' = [NoCall EXCEPT !.fn = "compare", !.op = op, !.v0 = v, !.w0 = other]
    /\ UNCHANGED <<v, x, g, res, log, ub, aborted>>

DoCompare == \E op \in {"==", "!="}, other \in ComparedWith(v) : Compare_(op, other)

NextEq == DoCompare
SpecEq == InitEq /\ [][NextEq]_vars

\* v1[i] == v2[i] for every i
AllEqual(a, b) == \A i \in 1..Dim(a) : ValEq(a.m_Values[i], b.m_Values[i])
\* no element is a NaN
NoNaN(a) == \A i \in 1..Dim(a) : a.m_Values[i].k # "nan"

(***************************************************************************)
(* C13 as stated: v1 == v2 holds iff v1[i] == v2[i] for every i; v1 != v2  *)
(* is the negation of v1 == v2; equality is symmetric and reflexive.       *)
(***************************************************************************)
C13_Equality_Reflexive ==
    (call.fn = "compare") =>
        /\ call.op = "==" => ret = Bool(AllEqual(call.v0, call.w0))
        /\ call.op = "!=" => ret = Bool(~AllEqual(call.v0, call.w0))
        /\ Equal(call.w0, call.v0) = Equal(call.v0, call.w0)
        /\ (call.op = "==" /\ call.w0 = call.v0) => ret = Bool(TRUE)

(***************************************************************************)
(* C13, amended: the same, with equality reflexive for the vectors that    *)
(* have no NaN among their components.                                     *)
(***************************************************************************)
C13_Equality ==
    (call.fn = "compare") =>
        /\ call.op = "==" => ret = Bool(AllEqual(call.v0, call.w0))
        /\ call.op = "!=" => ret = Bool(~AllEqual(call.v0, call.w0))
        /\ Equal(call.w0, call.v0) = Equal(call.v0, call.w0)
        /\ (call.op = "==" /\ call.w0 = call.v0 /\ NoNaN(call.v0)) => ret = Bool(TRUE)

\* {1,2} == {1,2} is true
C13_Witness ==
    /\ call.fn = "compare" /\ call.op = "=="
    /\ call.v0 = Vec("int", <<MkInt(1), MkInt(2)>>)
    /\ call.w0 = call.v0
    /\ ret = Bool(TRUE)

(***************************************************************************)
(* Vector<T, N>{}  ,  Vector<T, N>{ args... }  and  Vector{ args... }      *)
(***************************************************************************)
\* the arguments of the lists
ListScalars ==
    {Scalar("int", MkInt(-2)), Scalar("int", MkInt(5)), Scalar("uint", MkInt(UIntMax)),
     Scalar("float", Fin(1, Half)), Scalar("float", Fin(-1, One + Half))}

\* the argument lists: one to MaxDim arguments of any types
ArgumentLists == UNION {[1..n -> ListScalars] : n \in 1..MaxDim}

\* nothing constructed yet
InitCtor ==
    /\ v = NoVec
    /\ w = NoVec
    /\ x = NoScalar
    /\ g = NoGen
    /\ res = NoVec
    /\ ret = NoScalar
    /\ call = NoCall
    /\ log = <<>>
    /\ ub = FALSE
    /\ aborted = FALSE

DefaultConstruct_(T, N) ==
    /\ Ready
    /\ res' = DefaultCtor(T, N)
    /\ call' = [NoCall EXCEPT !.fn = "default", !.T = T, !.N = N]
    /\ UNCHANGED <<v, w, x, g, ret, log, ub, aborted>>

DoDefaultConstruct == \E T \in Types, N \in 1..(MaxDim + 2) : DefaultConstruct_(T, N)

\* Vector<T, N>{ args... }: builds when there are N arguments
DirectList_(T, N, args) ==
    /\ Ready
    /\ IF DirectListRequires(N, args)
       THEN /\ ub' = HasUndef(DirectListCtor(T, args).m_Values)
            /\ res' \in Outcomes(DirectListCtor(T, args))
       ELSE ub' = FALSE /\ res' = NoVec
    /\ call' = [NoCall EXCEPT !.fn = "direct_list", !.T = T, !.N = N, !.args = args,
                              !.built = DirectListRequires(N, args)]
    /\ UNCHANGED <<v, w, x, g, ret, log, aborted>>

DoDirectList ==
    \E T \in Types, N \in 1..MaxDim, args \in ArgumentLists : DirectList_(T, N, args)

\* Vector{ args... }: T and N from the deduction guide
DeducedList_(args) ==
    /\ Ready
    /\ ub' = HasUndef(DirectListCtor(DeducedT(args), args).m_Values)
    /\ res' \in Outcomes(DirectListCtor(DeducedT(args), args))
    /\ call' = [NoCall EXCEPT !.fn = "deduced_list", !.T = DeducedT(args),
                              !.N = DeducedN(args), !.args = args,
                              !.built = DirectListRequires(DeducedN(args), args)]
    /\ UNCHANGED <<v, w, x, g, ret, log, aborted>>

DoDeducedList == \E args \in ArgumentLists : DeducedList_(args)

NextCtor == DoDefaultConstruct \/ DoDirectList \/ DoDeducedList
SpecCtor == InitCtor /\ [][NextCtor]_vars

(***************************************************************************)
(* C14: a default-constructed Vector<T, N> has N components, each equal to *)
(* the zero of T.                                                          *)
(***************************************************************************)
C14_DefaultCtor ==
    (call.fn = "default") =>
        /\ res.ty = call.T
        /\ Dim(res) = call.N
        /\ \A i \in 1..call.N :
              ValEq(res.m_Values[i], Convert("int", call.T, MkInt(0)))

\* Vector<float, 3>{} is {0.f, 0.f, 0.f}
C14_Witness ==
    /\ call.fn = "default" /\ call.T = "float" /\ call.N = 3
    /\ res = Vec("float", <<Fin(1, 0), Fin(1, 0), Fin(1, 0)>>)

(***************************************************************************)
(* C15: Vector<T, N>{ a0, ..., aN-1 } has N components, component i being  *)
(* static_cast<T>(ai); with the template arguments deduced, the dimension  *)
(* is the number of arguments.                                             *)
(***************************************************************************)
C15_DirectList ==
    /\ (call.fn = "direct_list" /\ Len(call.args) = call.N /\ ~ub) =>
          /\ call.built
          /\ res.ty = call.T
          /\ Dim(res) = call.N
          /\ \A i \in 1..call.N :
                res.m_Values[i] = Convert(call.args[i].ty, call.T, call.args[i].val)
    /\ (call.fn = "deduced_list" /\ ~ub) =>
          /\ call.built
          /\ Dim(res) = Len(call.args)

\* Vector<int, 3>{ 5, 0.5f, -2 } is {5, 0, -2}
C15_Witness ==
    /\ call.fn = "direct_list" /\ call.T = "int" /\ call.N = 3 /\ ~ub
    /\ call.args = <<Scalar("int", MkInt(5)), Scalar("float", Fin(1, Half)),
                     Scalar("int", MkInt(-2))>>
    /\ res = Vec("int", <<MkInt(5), MkInt(0), MkInt(-2)>>)

(***************************************************************************)
(* v + s  for a Vector<int, N> v, against  v[i] + static_cast<int>(s)      *)
(***************************************************************************)
\* a + c in int, c the converted scalar; modulo 2^IntBits when the scalar
\* was unsigned
SumWithCast(sty, a, c) ==
    IF sty = "uint" /\ c.k # "undef" THEN MkInt(Wrap("int", Num(a) + Num(c)))
    ELSE IntArith("+", "int", a, c)

\* v[i] + static_cast<int>(s)
ClaimedSum(a, s) == SumWithCast(s.ty, a, Convert(s.ty, "int", s.val))

\* the int n is a float exactly
ExactFloat(n) == Convert("int", "float", n) = Fin(IF Num(n) < 0 THEN -1 ELSE 1, Abs(Num(n)) * One)

\* a float scalar that is a whole number, and an element a for which a and
\* a + s are floats exactly
WholeAndExact(a, s) ==
    /\ s.val.k = "fin"
    /\ s.val.u % One = 0
    /\ ExactFloat(a)
    /\ ClaimedSum(a, s).k # "undef"
    /\ ExactFloat(ClaimedSum(a, s))

\* the call is  v + s  with a Vector<int, N> v and a scalar object s
IntPlusScalar ==
    /\ call.fn = "binary_scalar" /\ call.op = "+" /\ call.ref = ArgRef
    /\ call.v0.ty = "int" /\ ~ub

(***************************************************************************)
(* C17 as stated: component i of v + s, v a Vector<int, N> and s an int,   *)
(* an unsigned int or a float, is v[i] + static_cast<int>(s) (modulo       *)
(* 2^IntBits for an unsigned s), for every such v and s for which that     *)
(* expression is defined.                                                  *)
(***************************************************************************)
C17_IntPlusScalar_AnyScalar ==
    IntPlusScalar =>
        \A i \in 1..Dim(res) :
            ClaimedSum(call.v0.m_Values[i], call.s).k # "undef" =>
                res.m_Values[i] = ClaimedSum(call.v0.m_Values[i], call.s)

(***************************************************************************)
(* C17, amended: component i of v + s is static_cast<int>(v[i] + s), the   *)
(* sum computed in the common type; that is v[i] + static_cast<int>(s)     *)
(* for an int s, for an unsigned s (modulo 2^IntBits), and for a float s   *)
(* that is a whole number when v[i] and v[i] + s are floats exactly.       *)
(***************************************************************************)
C17_IntPlusScalar ==
    IntPlusScalar =>
        \A i \in 1..Dim(res) :
            /\ res.m_Values[i] =
                  CastOf("int", "+", Scalar("int", call.v0.m_Values[i]), call.s)
            /\ (call.s.ty \in IntegralTypes
                    \/ WholeAndExact(call.v0.m_Values[i], call.s)) =>
                  res.m_Values[i] = ClaimedSum(call.v0.m_Values[i], call.s)

\* {1,2,3} + the largest unsigned is {0,1,2}, as is {1,2,3} + -1
C17_Witness ==
    /\ IntPlusScalar /\ ~call.ce
    /\ call.v0 = Vec("int", <<MkInt(1), MkInt(2), MkInt(3)>>)
    /\ call.s = Scalar("uint", MkInt(UIntMax))
    /\ res = Vec("int", <<MkInt(0), MkInt(1), MkInt(2)>>)

\* {1,2,3} + 1.f is {2,3,4}
C17_WholeFloat ==
    /\ IntPlusScalar
    /\ call.v0 = Vec("int", <<MkInt(1), MkInt(2), MkInt(3)>>)
    /\ call.s = Scalar("float", MkFloat(1))
    /\ \A i \in 1..3 : WholeAndExact(call.v0.m_Values[i], call.s)
    /\ res = Vec("int", <<MkInt(2), MkInt(3), MkInt(4)>>)

(***************************************************************************)
(* The reductions of the library against the sequential left fold.         *)
(***************************************************************************)
\* the call is a reduction of integer vectors at run time
IntegerReduction ==
    /\ call.fn \in {"dot_product", "length_squared"}
    /\ ~call.ce
    /\ call.v0.ty \in IntegralTypes
    /\ call.fn = "dot_product" => call.w0.ty \in IntegralTypes

\* the same reduction as the constant-evaluated path computes it: the left
\* fold from init over the elements in ascending order
SequentialFold ==
    dot_product(call.v0, IF call.fn = "dot_product" THEN call.w0 ELSE call.v0,
                TRUE, <<>>, "left")

(***************************************************************************)
(* C20 as stated: for dot_product and length_squared over integer element  *)
(* types, every order and grouping of the run-time path yields the result  *)
(* of the sequential left fold of the constant-evaluated path.             *)
(***************************************************************************)
C20_OrderIndependent_AnyInteger ==
    (IntegerReduction /\ SequentialFold.val.k # "undef") =>
        /\ ~ub
        /\ ret = SequentialFold

(***************************************************************************)
(* C20, amended: the same for unsigned element types; for a signed element *)
(* type the results agree whenever no partial sum of the grouping used     *)
(* overflows (which partial sums occur depends on the grouping).           *)
(***************************************************************************)
C20_OrderIndependent ==
    /\ (IntegerReduction /\ SequentialFold.val.k # "undef" /\ call.v0.ty = "uint") =>
          /\ ~ub
          /\ ret = SequentialFold
    /\ (IntegerReduction /\ SequentialFold.val.k # "undef" /\ ~ub) =>
          ret = SequentialFold

\* {1,2,3} . {1,2,3} is 14 when the operands are taken in descending order
\* and combined in two halves
C20_Witness ==
    /\ IntegerReduction /\ call.fn = "dot_product" /\ ~ub
    /\ call.v0 = Vec("int", <<MkInt(1), MkInt(2), MkInt(3)>>)
    /\ call.w0 = call.v0
    /\ call.order = <<4, 3, 2, 1>>
    /\ call.shape = "halves"
    /\ ret = Scalar("int", MkInt(14))
    /\ ret = SequentialFold

\* {2,-3,2} . {8,10,8} is 2 in the sequential fold; a grouping that adds
\* 16 + 16 first overflows
C20_PartialSumOverflows ==
    /\ IntegerReduction /\ ub
    /\ call.v0 = Vec("int", <<MkInt(2), MkInt(-3), MkInt(2)>>)
    /\ SequentialFold = Scalar("int", MkInt(2))

(***************************************************************************)
(* The engine called directly: transform_unseq(range, result, unaryOp),    *)
(* transform_unseq(range1, range2, result, binaryOp) with result the       *)
(* beginning of v, and transform_reduce_unseq.  A range is v itself (the   *)
(* output aliases the input) or another array w, which may be shorter      *)
(* than v and may be empty.                                                *)
(***************************************************************************)
\* the arrays passed as a range besides v
EngineRanges ==
    {y \in InputVectors : Dim(y) <= Dim(v)} \cup {Vec(ty, <<>>) : ty \in Types}

\* int counter = 0
Counter == Scalar("int", MkInt(0))
\* invoke_counter{ counter }, invoke_counter{ [&](auto lhs, auto rhs) { return lhs; }, counter }
InvokeCounter == NoCast(Func("invoke_counter"))
Counts(fn) == fn.func.kind = "invoke_counter"

\* the unary operations passed
UnaryOps ==
    {InvokeCounter, NoCast(Func("identity"))}
    \cup {NoCast(LambdaVal(op, s)) : op \in {"+", "*"},
                                     s \in {Scalar("int", MkInt(5)), Scalar("float", Fin(1, Half))}}
\* the binary operations passed
BinaryOps ==
    {InvokeCounter} \cup {NoCast(Func(kind)) : kind \in {"plus", "minus", "multiplies"}}

\* the object a range names, and its length
RangeObject(src, other) == IF src = "this" THEN v ELSE other
\* the memory of a call: v, the other array, and the counter where the
\* operations count their invocations
EngineMem(other, counted) == Mem(v, other, IF counted THEN Counter ELSE NoScalar)

TransformUnary_(src, other, unaryOp, ce, order) ==
    /\ Ready
    /\ \E m \in {transform_unseq(EngineMem(other, Counts(unaryOp)), src,
                                   Dim(RangeObject(src, other)), unaryOp, ce, order)} :
           /\ ub' = HasUndef(m.this.m_Values)
           /\ v' \in Outcomes(m.this)
           /\ w' = m.other
           /\ x' = m.arg
    /\ call' = [NoCall EXCEPT !.fn = "transform_unseq", !.v0 = v, !.w0 = other,
                              !.src = <<src>>, !.func = unaryOp,
                              !.N = Dim(RangeObject(src, other)),
                              !.ce = ce, !.order = order]
    /\ UNCHANGED <<g, res, ret, log, aborted>>

DoTransformUnary ==
    /\ Ready
    /\ \E unaryOp \in UnaryOps, ce \in BOOLEAN :
        \/ \E order \in CallOrders(ce, Dim(v)) :
               TransformUnary_("this", NoVec, unaryOp, ce, order)
        \/ \E other \in EngineRanges :
               \E order \in CallOrders(ce, Dim(other)) :
                   TransformUnary_("other", other, unaryOp, ce, order)

\* the pairs of ranges of equal length passed
RangePairs(other) ==
    {p \in {"this", "other"} \X {"this", "other"} :
        p[1] # p[2] => Dim(other) = Dim(v)}
\* their length
PairLength(p, other) == IF p = <<"this", "this">> THEN Dim(v) ELSE Dim(other)

TransformBinary_(p, other, binaryOp, ce, order) ==
    /\ Ready
    /\ \E m \in {transform_unseq_binary(EngineMem(other, Counts(binaryOp)), p[1], p[2],
                                          PairLength(p, other), binaryOp, ce, order)} :
           /\ ub' = HasUndef(m.this.m_Values)
           /\ v' \in Outcomes(m.this)
           /\ w' = m.other
           /\ x' = m.arg
    /\ call' = [NoCall EXCEPT !.fn = "transform_unseq_binary", !.v0 = v, !.w0 = other,
                              !.src = p, !.func = binaryOp,
                              !.N = PairLength(p, other),
                              !.ce = ce, !.order = order]
    /\ UNCHANGED <<g, res, ret, log, aborted>>

DoTransformBinary ==
    /\ Ready
    /\ \E binaryOp \in BinaryOps, ce \in BOOLEAN, other \in EngineRanges :
        \E p \in RangePairs(other) :
            \E order \in CallOrders(ce, PairLength(p, other)) :
                TransformBinary_(p, other, binaryOp, ce, order)

\* the arrays reduced besides v: those of its type and dimension, and the
\* empty one
ReduceRanges ==
    {y \in Companions(v) : y.ty = v.ty} \cup {Vec(v.ty, <<>>)}

\* the initial values passed
ReduceInits == {Scalar("int", MkInt(0)), Scalar("float", MkFloat(1))}

\* the operations passed together: one of them counts at most, as both
\* would count in the one counter
ReduceOps(maps) ==
    {p \in {InvokeCounter, NoCast(Func("plus")), NoCast(Func("multiplies"))} \X maps :
        ~(Counts(p[1]) /\ Counts(p[2]))}

ReduceUnary_(src, other, init, ops, ce, order, shape) ==
    /\ Ready
    /\ \E st \in {TransformReduceUnary(EngineMem(other, Counts(ops[1]) \/ Counts(ops[2])),
                                        src, Dim(RangeObject(src, other)), init,
                                        ops[1], ops[2], ce, order, shape)} :
           /\ ub' = (st.acc.val.k = "undef")
           /\ ret' \in OutcomeScalars(st.acc)
           /\ x' = st.mem.arg
    /\ w' = other
    /\ call' = [NoCall EXCEPT !.fn = "transform_reduce_unseq", !.v0 = v, !.w0 = other,
                              !.src = <<src>>, !.s = init,
                              !.combine = ops[1], !.func = ops[2],
                              !.N = Dim(RangeObject(src, other)),
                              !.ce = ce, !.order = order, !.shape = shape]
    /\ UNCHANGED <<v, g, res, log, aborted>>

DoReduceUnary ==
    /\ Ready
    /\ \E init \in ReduceInits, ops \in ReduceOps(UnaryOps), ce \in BOOLEAN :
        \E shape \in CallShapes(ce) :
            \/ \E order \in CallOrders(ce, Dim(v) + 1) :
                   ReduceUnary_("this", NoVec, init, ops, ce, order, shape)
            \/ \E order \in CallOrders(ce, 1) :
                   ReduceUnary_("other", Vec(v.ty, <<>>), init, ops, ce, order, shape)

ReduceBinary_(p, other, init, ops, ce, order, shape) ==
    /\ Ready
    /\ \E st \in {TransformReduce(EngineMem(other, Counts(ops[1]) \/ Counts(ops[2])),
                                   p[1], p[2], PairLength(p, other), init,
                                   ops[1], ops[2], ce, order, shape)} :
           /\ ub' = (st.acc.val.k = "undef")
           /\ ret' \in OutcomeScalars(st.acc)
           /\ x' = st.mem.arg
    /\ w' = other
    /\ call' = [NoCall EXCEPT !.fn = "transform_reduce_unseq_binary", !.v0 = v, !.w0 = other,
                              !.src = p, !.s = init,
                              !.combine = ops[1], !.func = ops[2],
                              !.N = PairLength(p, other),
                              !.ce = ce, !.order = order, !.shape = shape]
    /\ UNCHANGED <<v, g, res, log, aborted>>

DoReduceBinary ==
    /\ Ready
    /\ \E init \in ReduceInits, ops \in ReduceOps(BinaryOps), ce \in BOOLEAN :
        \E other \in ReduceRanges, shape \in CallShapes(ce) :
            \E p \in RangePairs(other) :
                \E order \in CallOrders(ce, PairLength(p, other) + 1) :
                    ReduceBinary_(p, other, init, ops, ce, order, shape)

NextEngine == DoTransformUnary \/ DoTransformBinary \/ DoReduceUnary \/ DoReduceBinary
SpecEngine == Init /\ [][NextEngine]_vars

\* what the operation of the call returns for the elements at index i of
\* its ranges as they were passed
Applied(i) ==
    Invoke(call.func, Mem(call.v0, call.w0, call.s),
           [k \in 1..Len(call.src) |->
               Deref(Mem(call.v0, call.w0, call.s), ElemRef(call.src[k], i))])

TransformCall == call.fn \in {"transform_unseq", "transform_unseq_binary"}

\* C18: transform_unseq writes unaryOp(e_i), respectively binaryOp(a_i, b_i),
\* converted to the output's element type, to outputPosition + i for every
\* index i of the input, also when a range is the output itself, in any
\* order of the elements; the elements outside
\* [outputPosition, outputPosition + length) and an input that is not the
\* output are left as they were
C18_Transform ==
    (TransformCall /\ ~ub) =>
        /\ Dim(v) = Dim(call.v0) /\ v.ty = call.v0.ty
        /\ \A i \in 1..call.N :
               v.m_Values[i] = Convert(Applied(i).ty, v.ty, Applied(i).val)
        /\ \A i \in (call.N + 1)..Dim(v) : v.m_Values[i] = call.v0.m_Values[i]
        /\ w = call.w0

\* {1,2,3} += 5 in place, in an order that is not ascending
C18_Witness ==
    /\ call.fn = "transform_unseq" /\ ~ub /\ ~call.ce
    /\ call.src = <<"this">> /\ call.order = <<3, 2, 1>>
    /\ call.func = NoCast(LambdaVal("+", Scalar("int", MkInt(5))))
    /\ call.v0 = Vec("int", <<MkInt(1), MkInt(2), MkInt(3)>>)
    /\ v = Vec("int", <<MkInt(6), MkInt(7), MkInt(8)>>)

\* a shorter range leaves the rest of the output alone
C18_ShortRange ==
    /\ call.fn = "transform_unseq_binary" /\ ~ub
    /\ call.src = <<"other", "other">> /\ call.N = 1 /\ Dim(call.v0) = 3
    /\ call.func = NoCast(Func("plus"))
    /\ v # call.v0

EngineCall ==
    call.fn \in {"transform_unseq", "transform_unseq_binary",
                 "transform_reduce_unseq", "transform_reduce_unseq_binary"}
ReduceCall == call.fn \in {"transform_reduce_unseq", "transform_reduce_unseq_binary"}

\* C19: over a range of length L, L = 0 included, transform_unseq has
\* invoked its operation L times when it returns, and
\* transform_reduce_unseq its map operation L times and its combine
\* operation L times, constant-evaluated or not, in any order and any
\* grouping of the reduction
C19_InvokedOncePerElement ==
    (EngineCall /\ ~ub /\ (Counts(call.func) \/ Counts(call.combine))) =>
        x = Scalar("int", MkInt(call.N))

\* three elements reduced in two halves at run time: three combinations
C19_Witness ==
    /\ call.fn = "transform_reduce_unseq_binary" /\ ~ub /\ ~call.ce
    /\ call.shape = "halves" /\ call.N = 3
    /\ Counts(call.combine)
    /\ x = Scalar("int", MkInt(3))

\* an empty range: no invocation at all
C19_EmptyRange ==
    /\ ReduceCall /\ ~ub /\ call.N = 0
    /\ Counts(call.combine)
    /\ x = Scalar("int", MkInt(0))
    /\ ret = call.s

(***************************************************************************)
(* lerp(v, w, t)                                                           *)
(***************************************************************************)
\* the vectors interpolated: the input vectors, {3,2,1} to go with {1,2,3},
\* integers that the floating-point type does not hold exactly, and a
\* vector with an infinite component
LerpVectors ==
    InputVectors
    \cup {Vec(ty, [i \in 1..MaxDim |-> Convert("int", ty, MkInt(MaxDim + 1 - i))]) : ty \in {"int", "float"}}
    \cup {Vec("int", <<MkInt(MantMod + 5)>>), Vec("int", <<MkInt(MantMod + 1), MkInt(2)>>),
          Vec("float", <<Inf(1), Fin(1, One)>>)}

\* the vectors of v's type to interpolate towards
LerpEnds == {y \in LerpVectors : y.ty = v.ty /\ Dim(y) = Dim(v)}

\* the interpolation distances t
LerpDistances ==
    {Scalar("int", MkInt(0)), Scalar("int", MkInt(1)),
     Scalar("float", Fin(1, 0)), Scalar("float", Fin(1, 1)), Scalar("float", Fin(1, Half)),
     Scalar("float", Fin(1, One)), Scalar("float", Fin(1, One + Half)),
     Scalar("float", Fin(-1, Half))}

InitLerp ==
    /\ v \in LerpVectors
    /\ w = NoVec
    /\ x = NoScalar
    /\ g = NoGen
    /\ res = NoVec
    /\ ret = NoScalar
    /\ call = NoCall
    /\ log = <<>>
    /\ ub = FALSE
    /\ aborted = FALSE

Lerp_(other, t, ce, order) ==
    /\ Ready
    /\ \E m \in {lerp(v, other, t, ce, order)} :
           /\ ub' = HasUndef(m.this.m_Values)
           /\ res' \in Outcomes(m.this)
           /\ w' = m.other
           /\ x' = m.arg
    /\ call' = [NoCall EXCEPT !.fn = "lerp", !.v0 = v, !.w0 = other, !.s = t,
                              !.ce = ce, !.order = order]
    /\ UNCHANGED <<v, g, ret, log, aborted>>

DoLerp ==
    /\ Ready
    /\ \E other \in LerpEnds, t \in LerpDistances, ce \in BOOLEAN :
           \E order \in CallOrders(ce, Dim(v)) : Lerp_(other, t, ce, order)

NextLerp == DoLerp
SpecLerp == InitLerp /\ [][NextLerp]_vars

LerpCall == call.fn = "lerp" /\ ~ub

\* std::lerp of the components at i of the operands as they were passed
LerpAt(i) ==
    LerpPromoted(Scalar(call.v0.ty, call.v0.m_Values[i]),
                 Scalar(call.w0.ty, call.w0.m_Values[i]), call.s)

\* the value is finite and the floating-point type holds it exactly
ExactlyHeld(ty, val) ==
    /\ val.k = "fin"
    /\ Convert(ty, "float", val) = (IF ty = "float" THEN val ELSE Fin(val.sg, val.u * One))
HeldVector(vec) == \A i \in 1..Dim(vec) : ExactlyHeld(vec.ty, vec.m_Values[i])

\* t compares equal to n
Distance(n) == ScalarEq(call.s, Scalar("int", MkInt(n)))

\* One times the exact value of a + t * (b - a), in units, for floats
ExactLerp(a, b, t) == Num(a) * One + Num(t) * (Num(b) - Num(a))
\* the spacing of the floats at u units
Ulp(u) == Pow2(RoundExp(u, 1, 0))
Max(a, b) == IF a < b THEN b ELSE a

\* component i of a vector, promoted to the floating-point type
Promoted(vec, i) == Convert(vec.ty, "float", vec.m_Values[i])
\* t, promoted
PromotedDistance == Convert(call.s.ty, "float", call.s.val)

\* std::lerp's result for the components at i is within two units in the
\* last place of the larger operand of the exact a + t * (b - a)
LerpAccurate(i) ==
    /\ LerpAt(i).val.k = "fin"
    /\ Abs(Num(LerpAt(i).val) * One
           - ExactLerp(Promoted(call.v0, i), Promoted(call.w0, i), PromotedDistance))
         <= 2 * One * Ulp(Max(Promoted(call.v0, i).u, Promoted(call.w0, i).u))

\* lerp(v1, v2, 0) == v1 and lerp(v1, v2, 1) == v2
LerpEndpoints ==
    /\ Distance(0) => VecEq(res, call.v0)
    /\ Distance(1) => VecEq(res, call.w0)

\* C21 as stated: for any two vectors, lerp(v1, v2, 0) == v1 and
\* lerp(v1, v2, 1) == v2, and the caller's vectors are unchanged
C21_Lerp_AnyVector ==
    LerpCall => (v = call.v0 /\ w = call.w0 /\ LerpEndpoints)

\* C21: lerp(v1, v2, t) returns the vector whose component i is
\* static_cast<T>(std::lerp(v1[i], v2[i], t)), whatever the order of the
\* elements, and leaves the caller's v1 and v2 unchanged; when the
\* components of v1 and v2 are finite and the floating-point type holds
\* them exactly, lerp(v1, v2, 0) == v1 and lerp(v1, v2, 1) == v2, and for
\* t in [0, 1] std::lerp's value is the exact v1[i] + t * (v2[i] - v1[i])
\* up to two units in the last place of the larger operand
C21_Lerp ==
    LerpCall =>
        /\ v = call.v0 /\ w = call.w0
        /\ res.ty = call.v0.ty /\ Dim(res) = Dim(call.v0)
        /\ \A i \in 1..Dim(res) :
               res.m_Values[i] = Convert("float", res.ty, LerpAt(i).val)
        /\ (HeldVector(call.v0) /\ HeldVector(call.w0)) =>
               /\ LerpEndpoints
               /\ (~FloatLess(PromotedDistance, Zero) /\ ~FloatLess(Fin(1, One), PromotedDistance))
                      => \A i \in 1..Dim(res) : LerpAccurate(i)

\* lerp({1,2,3}, {3,2,1}, 0.5) is {2,2,2}
C21_Witness ==
    /\ LerpCall /\ ~call.ce /\ call.v0.ty = "float" /\ Dim(call.v0) = MaxDim
    /\ call.s = Scalar("float", Fin(1, Half))
    /\ call.v0.m_Values = [i \in 1..MaxDim |-> MkFloat(i)]
    /\ call.w0.m_Values = [i \in 1..MaxDim |-> MkFloat(MaxDim + 1 - i)]
    /\ res.m_Values = [i \in 1..MaxDim |-> Fin(1, (MaxDim + 1) * Half)]

\* an integer that the floating-point type rounds does not come back
C21_RoundedInteger ==
    /\ LerpCall /\ Distance(1)
    /\ call.w0 = Vec("int", <<MkInt(MantMod + 5)>>)
    /\ res = Vec("int", <<MkInt(MantMod + 4)>>)

(***************************************************************************)
(* inversed(v)  and  normalized(v), for floating-point element types       *)
(***************************************************************************)
\* the zeros and infinities
Specials == {Fin(1, 0), Fin(-1, 0), Inf(1), Inf(-1)}

\* the floating-point vectors operated on: the input vectors, {1, 2, ...}
\* with a zero or an infinity in one place, and vectors of the smallest
\* positive float
FloatVectors ==
    {y \in InputVectors : y.ty = "float"}
    \cup {Vec("float", [i \in 1..n |-> IF i = k THEN z ELSE MkFloat(i)]) :
             z \in Specials, k \in 1..MaxDim, n \in 1..MaxDim}
    \cup {Vec("float", <<Fin(1, 1)>>), Vec("float", <<Fin(1, 1), Fin(-1, 1)>>)}

InitFloat ==
    /\ v \in FloatVectors
    /\ w = NoVec
    /\ x = NoScalar
    /\ g = NoGen
    /\ res = NoVec
    /\ ret = NoScalar
    /\ call = NoCall
    /\ log = <<>>
    /\ ub = FALSE
    /\ aborted = FALSE

Inversed_(ce, order) ==
    /\ Ready
    /\ \E m \in {inversed(v, ce, order)} :
           /\ ub' = HasUndef(m.this.m_Values)
           /\ res' \in Outcomes(m.this)
    /\ aborted' = FALSE
    /\ call' = [NoCall EXCEPT !.fn = "inversed", !.v0 = v, !.ce = ce, !.order = order]
    /\ UNCHANGED <<v, w, x, g, ret, log>>

DoInversed ==
    /\ Ready
    /\ \E ce \in BOOLEAN : \E order \in CallOrders(ce, Dim(v)) : Inversed_(ce, order)

\* the assertions of normalized: its own, and that of operator /= on the
\* length
NormalizedAsserts(len) ==
    NormalizedAssertion(v) /\ DivAssertion(Mem(v, NoVec, len), ArgRef)

Normalized_(ndebug, ce, order, shape, order2) ==
    /\ Ready
    /\ IF ~ndebug /\ ~NormalizedAsserts(length(v, ce, order, shape))
       THEN aborted' = TRUE /\ ub' = FALSE /\ res' = NoVec
       ELSE \E m \in {normalized(v, ce, order, shape, order2)} :
                /\ aborted' = FALSE
                /\ ub' = HasUndef(m.this.m_Values)
                /\ res' \in Outcomes(m.this)
    /\ call' = [NoCall EXCEPT !.fn = "normalized", !.v0 = v, !.ce = ce,
                              !.order = order, !.shape = shape]
    /\ UNCHANGED <<v, w, x, g, ret, log>>

DoNormalized ==
    /\ Ready
    /\ \E ndebug \in BOOLEAN, ce \in BOOLEAN :
           \E order \in CallOrders(ce, Dim(v) + 1), shape \in CallShapes(ce),
              order2 \in CallOrders(ce, Dim(v)) :
               Normalized_(ndebug, ce, order, shape, order2)

NextFloat == DoInversed \/ DoNormalized
SpecFloat == InitFloat /\ [][NextFloat]_vars

InversedCall == call.fn = "inversed" /\ ~ub
IsZero(val) == ValEq(val, Zero)

\* C22 as stated: component i is 1 / v[i], +infinity for every zero
\* component, and no error is reported
C22_Inversed_AnyZero ==
    InversedCall =>
        /\ ~aborted /\ v = call.v0 /\ Dim(res) = Dim(call.v0)
        /\ \A i \in 1..Dim(res) :
               res.m_Values[i] = (IF IsZero(call.v0.m_Values[i]) THEN Inf(1)
                                  ELSE FloatDiv(Fin(1, One), call.v0.m_Values[i]))

\* C22: inversed(v) returns the vector whose component i is 1 / v[i], in any
\* order of the elements; there is no zero check and no error: a component
\* +0 yields +infinity and a component -0 yields -infinity in that position,
\* the other components are as without it, and the caller's v is unchanged
C22_Inversed ==
    InversedCall =>
        /\ ~aborted /\ v = call.v0
        /\ res.ty = "float" /\ Dim(res) = Dim(call.v0)
        /\ \A i \in 1..Dim(res) :
               /\ res.m_Values[i] = FloatDiv(Fin(1, One), call.v0.m_Values[i])
               /\ call.v0.m_Values[i] = Fin(1, 0) => res.m_Values[i] = Inf(1)
               /\ call.v0.m_Values[i] = Fin(-1, 0) => res.m_Values[i] = Inf(-1)
               /\ call.v0.m_Values[i] = MkFloat(i) => res.m_Values[i] = RoundFloat(1, One, i)

\* inversed({1, 2, 0}) is {1, 0.5, +infinity}
C22_Witness ==
    /\ InversedCall /\ ~call.ce /\ Dim(call.v0) = MaxDim
    /\ call.v0.m_Values = [i \in 1..MaxDim |-> IF i = MaxDim THEN Fin(1, 0) ELSE MkFloat(i)]
    /\ res.m_Values[1] = Fin(1, One)
    /\ res.m_Values[MaxDim - 1] = RoundFloat(1, One, MaxDim - 1)
    /\ res.m_Values[MaxDim] = Inf(1)

\* inversed({1, -0.0}) is {1, -infinity}
C22_NegativeZero ==
    /\ InversedCall
    /\ call.v0 = Vec("float", <<Fin(1, One), Fin(-1, 0)>>)
    /\ res = Vec("float", <<Fin(1, One), Inf(-1)>>)

NormalizedCall == call.fn = "normalized" /\ ~ub /\ ~aborted

\* the length the call computed
CallLength == length(call.v0, call.ce, call.order, call.shape)

\* length(normalized(v)) is 1 to the smallest step of the floats, in
\* whatever order it is computed
UnitLength ==
    \A order \in Orders(Dim(res) + 1), shape \in Shapes :
        \E r \in {length(res, FALSE, order, shape).val} :
            r.k = "fin" /\ One - 1 <= r.u /\ r.u <= One + 1

\* v with every component divided by length(v)
Scaled ==
    /\ res.ty = "float" /\ Dim(res) = Dim(call.v0)
    /\ \A i \in 1..Dim(res) :
           res.m_Values[i] = FloatDiv(call.v0.m_Values[i], CallLength.val)

\* C23 as stated: for every non-zero v, normalized(v) is v with every
\* component divided by length(v) and has length approximately 1
C23_Normalized_AnyNonZero ==
    (NormalizedCall /\ NotNull(call.v0)) => (v = call.v0 /\ Scaled /\ UnitLength)

\* C23: normalized(v) returns v with every component divided by length(v)
\* and leaves the caller's v unchanged; when length(v) is finite and not
\* zero (the squares neither overflow nor all vanish), length(normalized(v))
\* is approximately 1
C23_Normalized ==
    NormalizedCall =>
        /\ v = call.v0
        /\ Scaled
        /\ (CallLength.val.k = "fin" /\ CallLength.val.u > 0) => UnitLength

\* {3, 3, 3} has length 5 in this precision, and {0.5, 0.5, 0.5} length 1
C23_Witness ==
    /\ NormalizedCall /\ ~call.ce /\ Dim(call.v0) > 1
    /\ CallLength.val.k = "fin" /\ CallLength.val.u > One
    /\ \A i \in 1..Dim(res) : res.m_Values[i].k = "fin" /\ res.m_Values[i].u > 0
    /\ UnitLength

\* the largest float: its square overflows, and the vector returned is zero
C23_Overflow ==
    /\ NormalizedCall
    /\ call.v0 = Vec("float", <<Fin(1, FloatMaxU)>>)
    /\ res = Vec("float", <<Fin(1, 0)>>)

(***************************************************************************)
(* g()  : a generator object invoked again and again                       *)
(***************************************************************************)
\* one invocation: the value is returned and entered in the log, the
\* generator is left advanced.  An iota that overflows a signed value and a
\* range read beyond its last element have undefined behaviour.
InvokeGenerator_(r, next) ==
    /\ ub' = (r.val.k = "undef" \/ next.value.k = "undef")
    /\ ret' \in OutcomeScalars(r)
    /\ g' = next
    /\ log' = Append(log, [idx |-> Len(log), ret |-> r])
    /\ call' = [call EXCEPT !.fn = "invoke", !.g0 = IF Ready THEN g ELSE call.g0,
                            !.N = Len(log) + 1]
    /\ UNCHANGED <<v, w, x, res, aborted>>

DoInvokeGenerator ==
    /\ call.fn \in {"none", "invoke"}
    /\ ~ub
    /\ Len(log) < MaxCalls
    /\ InvokeGenerator_(GenReturn(g), GenAdvance(g))

NextInvoke == DoInvokeGenerator
SpecInvoke == InitGen /\ [][NextInvoke]_vars

Invoked_(kind) == call.fn = "invoke" /\ ~ub /\ call.g0.kind = kind

\* b + k in the value type: modulo 2^w for an unsigned type
IotaValue(gen, k) == MkInt(Wrap(gen.ty, Num(gen.value) + k))

\* C24: while no invocation has overflowed a signed value, invocation k
\* (counted from 0) of gen::iota{b} returned b + k, in the arithmetic of the
\* value type, and after n invocations the stored value is b + n
C24_Iota ==
    Invoked_("iota") =>
        /\ \A k \in 1..Len(log) :
               log[k].ret = Scalar(call.g0.ty, IotaValue(call.g0, k - 1))
        /\ g = [call.g0 EXCEPT !.value = IotaValue(call.g0, Len(log))]
        /\ ret = log[Len(log)].ret

\* iota{2} invoked three times returned 2, 3, 4 and holds 5
C24_Witness ==
    /\ Invoked_("iota") /\ call.g0 = iota("int", MkInt(2))
    /\ Len(log) = 3
    /\ ret = Scalar("int", MkInt(4))
    /\ g.value = MkInt(5)

\* C25: invocation k (counted from 0, k < L) of gen::range over a source of
\* length L returned element k of the source, so the elements are yielded
\* once each and in source order, and the source is as it was
C25_Range ==
    Invoked_("range") =>
        /\ Len(log) <= Len(call.g0.src)
        /\ \A k \in 1..Len(log) :
               log[k].ret = Scalar(call.g0.ty, call.g0.src[k])
        /\ g.src = call.g0.src
        /\ ret = log[Len(log)].ret

\* the source {3, 4, 5} read to its end
C25_Witness ==
    /\ Invoked_("range") /\ call.g0.src = IotaValues(3, MaxDim)
    /\ Len(log) = MaxDim
    /\ ret = Scalar(call.g0.ty, MkInt(MaxDim + 2))

(***************************************************************************)
(* Vector<T, N>{ g } twice, from the one generator object g                *)
(***************************************************************************)
\* the second construction; w keeps the vector constructed first
GenerateAgain_ ==
    /\ call.fn = "generate" /\ ~ub
    /\ \E st \in {GeneratorCtor(call.T, call.N, g)} :
           /\ ub' = (HasUndef(st.this.m_Values) \/ st.gen.value.k = "undef")
           /\ res' \in Outcomes(st.this)
           /\ log' = st.log
           /\ g' = CallerGenerator(st, g)
    /\ w' = res
    /\ call' = [call EXCEPT !.fn = "generate_again"]
    /\ UNCHANGED <<v, x, ret, aborted>>

DoGenerateAgain == GenerateAgain_

NextGenTwice == DoGenerate \/ DoGenerateAgain
SpecGenTwice == InitGen /\ [][NextGenTwice]_vars

\* C30: constructing a Vector from a generator object leaves the caller's
\* object as it was, its next value included, and a second Vector
\* constructed from the same object equals the first
C30_GeneratorNotAdvanced ==
    (call.fn \in {"generate", "generate_again"} /\ ~ub) =>
        /\ g = call.g0
        /\ GenReturn(g) = GenReturn(call.g0)
        /\ call.fn = "generate_again" => res = w

\* two vectors from one iota{1}: both {1, 2, 3}
C30_Witness ==
    /\ call.fn = "generate_again" /\ ~ub
    /\ call.g0 = iota("int", MkInt(1)) /\ call.T = "int" /\ call.N = MaxDim
    /\ w.m_Values = IotaValues(1, MaxDim)
    /\ res.m_Values = IotaValues(1, MaxDim)
    /\ GenReturn(g) = Scalar("int", MkInt(1))

(***************************************************************************)
(* v %= s  and  v % s                                                      *)
(***************************************************************************)
DoModAssign ==
    /\ Ready
    /\ \E arg \in ScalarArgs(v), ce \in BOOLEAN :
          \E ndebug \in Builds("%"), order \in CallOrders(ce, Dim(v)) :
              CompoundScalar_("%", arg, ndebug, ce, order)

DoModulo ==
    /\ Ready
    /\ \E arg \in ScalarArgs(v), ce \in BOOLEAN :
          \E ndebug \in Builds("%"), order \in CallOrders(ce, Dim(v)) :
              BinaryScalar_("%", arg, ndebug, ce, order)

NextModulo == DoModAssign \/ DoModulo
SpecModulo == Init /\ [][NextModulo]_vars

ModuloCall == call.fn \in {"compound_scalar", "binary_scalar"} /\ call.op = "%"

\* the vector the call computed: v itself, or the vector v % s returns
Remainders == IF call.fn = "compound_scalar" THEN v ELSE res

\* static_cast<T>(s) of the scalar the call was made with
Divisor == Convert(call.s.ty, call.v0.ty, call.s.val)

\* the assertion holds of the operands of the call
ModuloAsserted ==
    /\ Divisor.k # "undef"
    /\ ModAssertion(Mem(call.v0, call.v0, call.s),
                    IF call.fn = "compound_scalar" THEN call.ref ELSE BoundRef(call.ref))

\* a % b of two integers: the remainder of the truncated division
Remainder(a, b) == a - b * TruncDiv(a, b)

\* the one remainder with a non-zero divisor that is undefined
MinByMinusOne(i) ==
    /\ call.v0.ty = "int"
    /\ Num(call.v0.m_Values[i]) = IntMin /\ Num(Divisor) = -1

C26_FractionCaught ==
    /\ ModuloCall /\ aborted /\ ~ModuloAsserted
    /\ call.v0 = Vec("int", IotaValues(1, MaxDim))
    /\ call.s = Scalar("float", Fin(1, Half))
    /\ v = call.v0

(***************************************************************************)
(* The assertion of operator []                                            *)
(***************************************************************************)
\* a call of operator [] that builds
SubscriptCall == call.fn \in {"read", "assign"} /\ call.op = "[]" /\ call.built

\* the index is one of [0, N)
Stored == call.idx \in 0..(Dim(call.v0) - 1)

\* C27 as stated: the assertion of operator [] holds exactly for the indices
\* in [0, N), so that an index that passes it denotes a stored component and
\* no call that passes it accesses anything outside the storage
C27_Assertion_Exact ==
    SubscriptCall =>
        /\ IndexAssertion("[]", call.idx) <=> Stored
        /\ IndexAssertion("[]", call.idx) => ~ub

\* C27, amended: the assertion of operator [] holds exactly for the indices
\* that are not negative.  A negative index stops a debug build (and is
\* undefined without the assertion); an index in [0, N) passes and denotes
\* component index; an index >= N passes as well and the access outside the
\* storage is undefined in every build.
C27_Assertion ==
    SubscriptCall =>
        /\ aborted => call.idx < 0
        /\ call.idx < 0 => (aborted \/ ub) /\ ~IndexAssertion("[]", call.idx)
        /\ Stored =>
              /\ IndexAssertion("[]", call.idx) /\ ~aborted /\ ~ub
              /\ call.fn = "read" =>
                    ret = Scalar(call.v0.ty, call.v0.m_Values[call.idx + 1])
        /\ call.idx >= Dim(call.v0) =>
              IndexAssertion("[]", call.idx) /\ ~aborted /\ ub
        /\ v = call.v0

\* {1,2,3}[3] passes the assertion and reads beyond the last element
C27_Witness ==
    /\ SubscriptCall /\ call.fn = "read"
    /\ call.v0 = Vec("int", IotaValues(1, MaxDim)) /\ call.idx = MaxDim
    /\ IndexAssertion("[]", call.idx) /\ ~aborted /\ ub

\* {1,2,3}[-1] is stopped by the assertion
C27_NegativeCaught ==
    /\ SubscriptCall /\ call.fn = "read"
    /\ call.v0 = Vec("int", IotaValues(1, MaxDim)) /\ call.idx = -1
    /\ aborted /\ ~ub

(***************************************************************************)
(* v op= v[k]: the scalar argument is an element of the vector itself      *)
(***************************************************************************)
\* the call passed an element of v as the scalar
ElementPassed ==
    /\ call.fn = "compound_scalar" /\ call.op \in {"+", "-", "*", "/"}
    /\ call.ref # ArgRef

\* what the non-compound  v op v[k]  returns for the operands of the call
NonCompound ==
    ScalarBinary(call.op, call.v0, call.s, call.ref, TRUE, Ascending(Dim(call.v0))).ret

\* C28: a scalar compound operator broadcasts the value its argument had
\* when the call began: after  v op= v[k]  component i is
\* static_cast<T>(old v[i] op old v[k]), and v equals what  v op v[k]  returns
C28_BroadcastsOldValue ==
    (ElementPassed /\ ~ub /\ ~aborted /\ ~HasUndef(NonCompound.m_Values)) =>
        /\ \A i \in 1..Dim(v) :
              v.m_Values[i] =
                  CastOf(v.ty, call.op, Scalar(v.ty, call.v0.m_Values[i]), call.s)
        /\ v = NonCompound

\* {1,2,3} += v[0] in ascending order is {2,4,5}:  v + v[0]  is {2,3,4}
C28_UpdatedValueRead ==
    /\ ElementPassed /\ call.op = "+" /\ call.ref = ElemRef("this", 1) /\ call.ce
    /\ ~ub /\ ~aborted
    /\ call.v0 = Vec("int", IotaValues(1, MaxDim))
    /\ v = Vec("int", [i \in 1..MaxDim |-> MkInt(IF i = 1 THEN 2 ELSE i + 2)])
    /\ NonCompound = Vec("int", IotaValues(2, MaxDim))

(***************************************************************************)
(* v += v  and  v -= v                                                     *)
(***************************************************************************)
InitSelf ==
    /\ v \in InputVectors \cup FloatVectors
    /\ w = NoVec
    /\ x = NoScalar
    /\ g = NoGen
    /\ res = NoVec
    /\ ret = NoScalar
    /\ call = NoCall
    /\ log = <<>>
    /\ ub = FALSE
    /\ aborted = FALSE

DoSelfAssign ==
    /\ Ready
    /\ \E op \in {"+", "-"}, ce \in BOOLEAN :
          \E order \in CallOrders(ce, Dim(v)) : CompoundVector_(op, v, TRUE, ce, order)

NextSelf == DoSelfAssign
SpecSelf == InitSelf /\ [][NextSelf]_vars

SelfCall == call.fn = "compound_vector" /\ call.self /\ ~ub

\* old v[i] op old v[i], in the element type
WithItself(i) ==
    CastOf(call.v0.ty, call.op, Scalar(call.v0.ty, call.v0.m_Values[i]),
           Scalar(call.v0.ty, call.v0.m_Values[i]))

\* every component of v compares equal to zero
IsZeroVector == VecEq(v, DefaultCtor(call.v0.ty, Dim(call.v0)))

AllFinite(vector) == \A i \in 1..Dim(vector) : vector.m_Values[i].k = "fin"

\* C29 as stated: whatever the order of the elements, v += v leaves
\* old v[i] + old v[i] in every component and v -= v the zero vector, for
\* every vector v
C29_SelfAssign_AnyVector ==
    SelfCall =>
        /\ \A i \in 1..Dim(call.v0) : v.m_Values[i] = WithItself(i)
        /\ call.op = "-" => IsZeroVector

\* C29, amended: whatever the order of the elements, v += v leaves
\* old v[i] + old v[i] in every component and v -= v leaves
\* old v[i] - old v[i], which is the zero vector for every v with finite
\* components
C29_SelfAssign ==
    SelfCall =>
        /\ v.ty = call.v0.ty /\ Dim(v) = Dim(call.v0)
        /\ \A i \in 1..Dim(call.v0) : v.m_Values[i] = WithItself(i)
        /\ (call.op = "+" /\ v.ty = "int") =>
              \A i \in 1..Dim(v) : Num(v.m_Values[i]) = 2 * Num(call.v0.m_Values[i])
        /\ (call.op = "-" /\ AllFinite(call.v0)) => IsZeroVector

\* {2,-3,2} += itself in an order other than the ascending one is {4,-6,4}
C29_Witness ==
    /\ SelfCall /\ call.op = "+" /\ ~call.ce
    /\ call.v0 = Vec("int", <<MkInt(2), MkInt(-3), MkInt(2)>>)
    /\ v = Vec("int", <<MkInt(4), MkInt(-6), MkInt(4)>>)

\* {inf, 2.f} -= itself is {NaN, 0}
C29_InfiniteComponent ==
    /\ SelfCall /\ call.op = "-"
    /\ call.v0 = Vec("float", <<Inf(1), MkFloat(2)>>)
    /\ v.m_Values[1].k = "nan" /\ ValEq(v.m_Values[2], Fin(1, 0))

====
